---- MODULE Spec2Model ----
(***************************************************************************)
(* Measurement engine of cf-speedtest: the phase sequencer, the adaptive   *)
(* retry controller of the bandwidth probes and the latency probe.         *)
(*                                                                         *)
(* Two sequencers are modelled, selected by impl:                          *)
(*   "std"  - run_standard_test of src/cf_speedtest/speedtest.py, with     *)
(*            measure_latency / measure_download_bandwidth /               *)
(*            measure_upload_bandwidth;                                    *)
(*   "full" - _run_full of src/python/cf_speedtest_custom/speedtest.py     *)
(*            (src/python/cf_speedtest/speedtest.py holds the same loop,   *)
(*            statement for statement).                                    *)
(*                                                                         *)
(* One step of the model is one pass through a loop head of the code: one  *)
(* HTTP request together with the handling of its answer, or one           *)
(* evaluation of a loop condition.  The transport is the environment: the  *)
(* answer to each request is chosen freely among the outcomes below.       *)
(*                                                                         *)
(* Data kept by the model: the results list of a phase is kept as the      *)
(* multiset of its durations (its order is never read); the errors counter *)
(* of a phase, which the code only logs, is kept per attempt as counted    *)
(* ("errors += 1 ran for this attempt"); the locals of measure_* are reset *)
(* when the function returns.  executed, attempts, sizes, last_status,     *)
(* only429, sleeps and appended record what the run did and are never read *)
(* by an action.                                                           *)
(***************************************************************************)
EXTENDS Integers, Sequences, FiniteSets, TLC

(***************************************************************************)
(* Program constants                                                       *)
(***************************************************************************)
MAX_RETRIES == 3
MIN_BYTES_PER_REQ == 100000
\* seconds, DEFAULT_RETRY_DELAY = 2.0
DEFAULT_RETRY_DELAY == 2
BANDWIDTH_MIN_REQUEST_DURATION == 10
BANDWIDTH_FINISH_REQUEST_DURATION == 1000
BANDWIDTH_FINISH_REQUEST_DURATION_MS == 1000
BANDWIDTH_MIN_REQUEST_DURATION_MS == 10
\* float('inf'): larger than every duration of the model
Inf == 999999999

\* measurements of run_standard_test: (type, bytes, count, bypass_min_duration)
measurements ==
  << [mtype |-> "latency",  bytes |-> 0,         count |-> 1,  bypass |-> FALSE],
     [mtype |-> "download", bytes |-> 100000,    count |-> 1,  bypass |-> TRUE],
     [mtype |-> "latency",  bytes |-> 0,         count |-> 20, bypass |-> FALSE],
     [mtype |-> "download", bytes |-> 100000,    count |-> 9,  bypass |-> FALSE],
     [mtype |-> "download", bytes |-> 1000000,   count |-> 8,  bypass |-> FALSE],
     [mtype |-> "upload",   bytes |-> 100000,    count |-> 8,  bypass |-> FALSE],
     [mtype |-> "upload",   bytes |-> 1000000,   count |-> 6,  bypass |-> FALSE],
     [mtype |-> "download", bytes |-> 10000000,  count |-> 6,  bypass |-> FALSE],
     [mtype |-> "upload",   bytes |-> 10000000,  count |-> 4,  bypass |-> FALSE],
     [mtype |-> "download", bytes |-> 25000000,  count |-> 4,  bypass |-> FALSE],
     [mtype |-> "upload",   bytes |-> 25000000,  count |-> 4,  bypass |-> FALSE],
     [mtype |-> "download", bytes |-> 100000000, count |-> 3,  bypass |-> FALSE],
     [mtype |-> "upload",   bytes |-> 50000000,  count |-> 3,  bypass |-> FALSE],
     [mtype |-> "download", bytes |-> 250000000, count |-> 2,  bypass |-> FALSE] >>

\* MEASUREMENTS of the packages under src/python (num_packets is count)
MEASUREMENTS ==
  << [mtype |-> "latency",  bytes |-> 0,         count |-> 1,  bypass |-> FALSE],
     [mtype |-> "download", bytes |-> 100000,    count |-> 1,  bypass |-> TRUE],
     [mtype |-> "latency",  bytes |-> 0,         count |-> 20, bypass |-> FALSE],
     [mtype |-> "download", bytes |-> 100000,    count |-> 9,  bypass |-> FALSE],
     [mtype |-> "download", bytes |-> 1000000,   count |-> 8,  bypass |-> FALSE],
     [mtype |-> "upload",   bytes |-> 100000,    count |-> 8,  bypass |-> FALSE],
     [mtype |-> "upload",   bytes |-> 1000000,   count |-> 6,  bypass |-> FALSE],
     [mtype |-> "download", bytes |-> 10000000,  count |-> 6,  bypass |-> FALSE],
     [mtype |-> "upload",   bytes |-> 10000000,  count |-> 4,  bypass |-> FALSE],
     [mtype |-> "download", bytes |-> 25000000,  count |-> 4,  bypass |-> FALSE],
     [mtype |-> "upload",   bytes |-> 25000000,  count |-> 4,  bypass |-> FALSE],
     [mtype |-> "download", bytes |-> 100000000, count |-> 3,  bypass |-> FALSE],
     [mtype |-> "upload",   bytes |-> 50000000,  count |-> 3,  bypass |-> FALSE],
     [mtype |-> "download", bytes |-> 250000000, count |-> 2,  bypass |-> FALSE] >>

NPhases == Len(measurements)
PhaseIds == 1..NPhases

(***************************************************************************)
(* The environment: what the transport can answer                          *)
(***************************************************************************)
\* durations (ms) a successful bandwidth probe can measure: below the
\* 10 ms validity floor, below the finish threshold, above it
Durations == {5, 500, 1500}
\* Retry-After header of a 429: absent, a number of seconds, an HTTP date
RetryAfterHeaders == {"", "1", "Wed, 21 Oct 2026 07:28:00 GMT"}
\* status codes are kept as strings; one that is neither 2xx, 429 nor 403
OtherStatus == "500"

\* float(retry_after_str) if retry_after_str else DEFAULT_RETRY_DELAY;
\* float() raises ValueError on a string that is no number
IsFloat(h) == h = "1"
FloatOf(h) == IF h = "1" THEN 1 ELSE 0
RetryAfterRaises(h) == h # "" /\ ~IsFloat(h)
RetryAfter(h) == IF h = "" THEN DEFAULT_RETRY_DELAY ELSE FloatOf(h)

RECURSIVE Pow2(_)
Pow2(n) == IF n = 0 THEN 1 ELSE 2 * Pow2(n - 1)

Max(a, b) == IF a >= b THEN a ELSE b
Min(a, b) == IF a <= b THEN a ELSE b

VARIABLES
  impl,                \* which sequencer this run executes
  pc,                  \* position of the single thread of control
  idx,                 \* index into the phase table (1-based)
  i,                   \* attempt index of the for loop of the phase
  current_size,        \* RetryState.currentSize
  retry_count,         \* RetryState.retryCount
  measurement_success, \* loop flag of the retry loop
  results,             \* results of the phase: duration -> number of results
  min_duration,        \* running minimum of the phase (Inf when none)
  download_finished,
  upload_finished,
  \* ---- observation of the run (not read by the program) ----
  executed,            \* phases begun, in the order they were begun
  attempts,            \* phase -> number of attempts (packets) started
  sizes,               \* sizes requested so far in the current attempt
  last_status,         \* answer to the last request of the current attempt
  only429,             \* every answer of the current attempt so far was 429
  sleeps,              \* retry sleeps (ms) of the current attempt
  appended,            \* results appended by the current attempt
  counted,             \* errors += 1 was executed for the current attempt
  outcome,             \* "running", then "assembled" (the loop over the
                       \* table was left normally), "reported" (_run_reduced
                       \* returned) or "raised" (an exception left the loop
                       \* and ended the run)
  \* ---- what the run has collected (see "Accumulators" below) ----
  latencies,           \* measure_latency: number of samples of its local list
  any_latency,         \* all_latency_measurements / latencies is not empty
  any_download,        \* download_results / dl_pts is not empty
  any_upload,          \* upload_results / ul_pts is not empty
  failed_download_sizes,
  failed_upload_sizes,
  returned,            \* what the run handed to its caller
  measurement_sizes,   \* _run_reduced: the sizes given by the caller
  \* ---- the percentile computation ----
  percentile_val,      \* target percentile as given by the caller
  bandwidth_percentile,\* the rank fraction run_standard_test derives from it
  values,              \* the list handed to percentile()
  pct,                 \* what percentile() answered
  \* ---- a direct call of measure_download_bandwidth / _upload_ ----
  bytes_size,          \* its argument bytes_size (0: no such call)
  count,               \* its argument count
  \* ---- the samples of a run (see "Samples" below) ----
  all_latency_measurements, \* latency samples (latencies in _run_full and
                       \* _run_reduced), in the order they were appended
  download_results,    \* download_results / down / down_pts
  upload_results,      \* upload_results / up / up_pts
  latency_measurements,\* the latency samples chosen for the report
  dl_pts,              \* what the download percentile is computed from
  ul_pts,              \* what the upload percentile is computed from
  \* ---- one answered request (see "One successful request" below) ----
  response,            \* the response of a request answered 2xx
  result,              \* what the probe made of it
  \* ---- the two retry controllers side by side (see below) ----
  down,                \* the locals of measure_download_bandwidth
  up,                  \* the locals of measure_upload_bandwidth
  \* ---- the stored points of one size (see "The window" below) ----
  timings,             \* down[bytes_req] / up[bytes_req] of _run_full
  history              \* every point appended to it, in order (not read
                       \* by the program)

vars == << impl, pc, idx, i, current_size, retry_count, measurement_success,
           results, min_duration, download_finished, upload_finished,
           executed, attempts, sizes, last_status, only429, sleeps, appended,
           counted, outcome, latencies, any_latency, any_download, any_upload,
           failed_download_sizes, failed_upload_sizes, returned,
           measurement_sizes, percentile_val, bandwidth_percentile, values, pct,
           bytes_size, count, all_latency_measurements, download_results,
           upload_results, latency_measurements, dl_pts, ul_pts,
           response, result, down, up, timings, history >>

acc == << any_latency, any_download, any_upload >>
failed == << failed_download_sizes, failed_upload_sizes >>
callVars == << bytes_size, count >>
dataVars == << all_latency_measurements, download_results, upload_results,
              latency_measurements, dl_pts, ul_pts >>
pctVars == << percentile_val, bandwidth_percentile, values, pct >>
probeVars == << response, result >>
eqVars == << down, up >>
winVars == << timings, history >>
fnVars == << measurement_sizes, pctVars, callVars, dataVars, probeVars,
            eqVars, winVars >>

ctl == << current_size, retry_count, measurement_success >>
phaseVars == << results, min_duration >>
flags == << download_finished, upload_finished >>
attemptObs == << sizes, last_status, only429, sleeps, appended, counted >>

\* no request of the current attempt has been answered yet
NoStatus == "none"
\* a request that ended in a transport exception instead of an answer
NoAnswer == "exception"

NoResults == [d \in Durations |-> 0]
NResults(r) == r[5] + r[500] + r[1500]

(***************************************************************************)
(* Accumulators.  The run reads of its accumulators only whether they are  *)
(* empty, so each is kept as that one bit: any_latency stands for          *)
(* all_latency_measurements (latencies in _run_full), any_download and     *)
(* any_upload for download_results / upload_results, which hold only       *)
(* results of at least 10 ms (in _run_full: for dl_pts / ul_pts, the       *)
(* points of down / up of at least 10 ms).  The bps of a result is bits    *)
(* over duration with bits > 0 and duration >= 1 ms, hence positive; the   *)
(* tests "m['bps']" and "if download_bps" of the code are then true.       *)
(***************************************************************************)
\* no request is looked at / nothing was made of it
NoResponse == [requested |-> 0, server_timing |-> "", elapsed |-> 0,
               payload |-> 0, transfer_size |-> 0]
NoResult == [kind |-> "none"]
\* neither bandwidth function has been called side by side
NoCall == [pc |-> "none"]

\* nothing has been handed to the caller yet
NoReturn ==
  [kind |-> "none", names |-> "", failed_sizes |-> << >>,
   download_speed |-> "", upload_speed |-> "", ping_ms |-> ""]

\* raise ValueError("Failed to measure <what> ..."), with the failed sizes
\* its message shows
Failure(what, fsizes) ==
  [kind |-> "ValueError", names |-> what, failed_sizes |-> fsizes,
   download_speed |-> "", upload_speed |-> "", ping_ms |-> ""]

\* a report: each field is "percentile" (computed from samples) or "0.0"
Report(dl, ul, ping) ==
  [kind |-> "report", names |-> "", failed_sizes |-> << >>,
   download_speed |-> dl, upload_speed |-> ul, ping_ms |-> ping]

\* parser.add_argument('--percentile', type=float, default=90)
HUNDRED == 100
\* numbers with a fraction are kept in units of 1/10000: Unit is 1.0
Unit == HUNDRED * HUNDRED
DefaultPercentile == 90 * Unit

(***************************************************************************)
(* Samples.  A latency sample is kept with the number of its place in the  *)
(* order of collection (n) and its value in ms (ping).  Of the results of  *)
(* a direction the model keeps which durations occur among them            *)
(* (durations) and how many of them answer a request for 100,000 bytes,    *)
(* the one size that two phases of the table request (repeated).  The bps  *)
(* of a result is positive in every implementation (bits > 0 over a        *)
(* duration of at least 1 ms), so the test of its truth never removes a    *)
(* result; a result is told from another by its duration.                  *)
(***************************************************************************)
\* values (ms) a latency sample can take
Pings == {10, 12}

\* the samples number from + 1 .. from + k, each of value v
Samples(from, k, v) == [j \in 1..k |-> [n |-> from + j, ping |-> v]]

\* if len(all_latency_measurements) >= 20
MainLatencyCount == 20

\* no result
NoPoints == [durations |-> {}, repeated |-> 0]

\* ('download', 100_000, 1, True) and ('download', 100_000, 9, False): the
\* one size that a table requests twice in a direction
RepeatedSize == 100000

\* the requests whose results the field repeated counts
Counted(mtype, bytes) == mtype = "download" /\ bytes = RepeatedSize

\* the durations that occur in a list of results
DurationsOf(r) == {d \in Durations : r[d] > 0}

\* a rational number num / den
Over(a, b) == [num |-> a, den |-> b]

\* the report of run_standard_test of src/cf_speedtest: its three keys
StdReport(dl, ul, lat) ==
  [kind |-> "report", names |-> "", failed_sizes |-> << >>,
   download_speed |-> dl, upload_speed |-> ul, latency_measurements |-> lat]

\* the report of _run_full and _run_reduced (client_ip and colo left out)
FullReport(dl, ul, ping, jit, lat) ==
  [kind |-> "report", names |-> "", failed_sizes |-> << >>,
   download_speed |-> dl, upload_speed |-> ul, ping_ms |-> ping,
   jitter_ms |-> jit, latency_measurements |-> lat]

(***************************************************************************)
(* percentile() of src/cf_speedtest/utils.py and the normalisation of the  *)
(* target in run_standard_test.  A number with a fraction (perc, idx, rem, *)
(* the result) is an integer count of 1/Unit; the values of the list are   *)
(* whole numbers.  percentile() of the packages under src/python differs   *)
(* only in clamping ceil_idx to n - 1, which is never needed: rem # 0      *)
(* implies idx < n - 1.                                                    *)
(***************************************************************************)
\* bandwidth_percentile = percentile_val / 100.0 if percentile_val > 1
\*                        else percentile_val
Normalised(t) == IF t > Unit THEN t \div HUNDRED ELSE t

\* the place of x in the ascending list s: after the elements not above it
RECURSIVE sorted(_)
Insert(s, x) ==
  LET n == Cardinality({j \in DOMAIN s : s[j] <= x})
  IN SubSeq(s, 1, n) \o << x >> \o SubSeq(s, n + 1, Len(s))

\* (variant for C19: the list is used in the order given)
sorted_AsGiven(v) == v

\* sorted(values)
sorted(v) == IF v = << >> THEN << >> ELSE Insert(sorted(Tail(v)), Head(v))

\* (variant for C18: the fraction of the rank is dropped)
WeightedAverage_Floor(lo, hi, rem) == lo * Unit

\* edges[0] + (edges[1] - edges[0]) * rem
WeightedAverage(lo, hi, rem) == lo * Unit + (hi - lo) * rem

\* element k of a Python list (k counted from 0)
At(s, k) == s[k + 1]

percentile(vals, perc) ==
  IF vals = << >> THEN 0
  ELSE LET p == IF perc > Unit THEN perc \div HUNDRED ELSE perc
           sorted_vals == sorted(vals)
           rank == (Len(sorted_vals) - 1) * p
           rem == rank % Unit
           floor_idx == rank \div Unit
           ceil_idx == floor_idx + 1
       IN IF rem = 0
          THEN At(sorted_vals, floor_idx) * Unit
          ELSE WeightedAverage(At(sorted_vals, floor_idx),
                               At(sorted_vals, ceil_idx), rem)

\* the positions (from 0) of sorted_vals that percentile(vals, perc) reads
Indexed(vals, perc) ==
  IF vals = << >> THEN {}
  ELSE LET p == IF perc > Unit THEN perc \div HUNDRED ELSE perc
           rank == (Len(vals) - 1) * p
       IN IF rank % Unit = 0 THEN {rank \div Unit}
          ELSE {rank \div Unit, rank \div Unit + 1}

\* the lists of sizes a caller hands to _run_reduced
MaxSizes == 2
SizeLists == UNION { [1..k -> {100000, 1000000}] : k \in 0..MaxSizes }

\* the state of a run before its first step
Fresh ==
  /\ idx = 1
  /\ i = 0
  /\ current_size = 0
  /\ retry_count = 0
  /\ measurement_success = FALSE
  /\ results = NoResults
  /\ min_duration = Inf
  /\ download_finished = FALSE
  /\ upload_finished = FALSE
  /\ executed = << >>
  /\ attempts = [p \in PhaseIds |-> 0]
  /\ sizes = << >>
  /\ last_status = NoStatus
  /\ only429 = TRUE
  /\ sleeps = << >>
  /\ appended = 0
  /\ counted = FALSE
  /\ outcome = "running"
  /\ latencies = 0
  /\ any_latency = FALSE
  /\ any_download = FALSE
  /\ any_upload = FALSE
  /\ failed_download_sizes = << >>
  /\ failed_upload_sizes = << >>
  /\ returned = NoReturn
  /\ all_latency_measurements = << >>
  /\ download_results = NoPoints
  /\ upload_results = NoPoints
  /\ latency_measurements = << >>
  /\ dl_pts = {}
  /\ ul_pts = {}

Init ==
  /\ impl \in {"std", "full", "reduced"}
  /\ pc = CASE impl = "std" -> "seq"
            [] impl = "full" -> "getip"
            [] impl = "reduced" -> "rlat"
  /\ measurement_sizes \in IF impl = "reduced" THEN SizeLists ELSE {<< >>}
  /\ Fresh
  /\ percentile_val = DefaultPercentile
  /\ bandwidth_percentile = Normalised(percentile_val)
  /\ values = << >>
  /\ pct = 0
  /\ bytes_size = 0
  /\ count = 0
  /\ response = NoResponse
  /\ result = NoResult
  /\ down = NoCall
  /\ up = NoCall
  /\ timings = << >>
  /\ history = << >>

(***************************************************************************)
(* Pure helpers of the retry controller and of the sequencer               *)
(***************************************************************************)
\* while retry_count <= MAX_RETRIES and not measurement_success
WhileCond(rc, success) == rc <= MAX_RETRIES /\ ~success

\* if current_size > MIN_BYTES_PER_REQ (the shrink branch is entered)
CanShrink(size) == size > MIN_BYTES_PER_REQ

\* (variant for C9: the halving without the floor)
NextSize_NoFloor(size) == size \div 2

\* next_size = max(MIN_BYTES_PER_REQ, current_size // 2)
NextSize(size) == Max(MIN_BYTES_PER_REQ, size \div 2)

\* if retry_count < MAX_RETRIES (the backoff branch)
CanBackoff(rc) == rc < MAX_RETRIES

\* wait_time = retry_after * (2 ** retry_count), in milliseconds
WaitTime(h, rc) == RetryAfter(h) * Pow2(rc) * 1000

\* except RateLimitError: if retry_count >= MAX_RETRIES or current_size <= MIN
GivesUp(rc, size) == rc >= MAX_RETRIES \/ size <= MIN_BYTES_PER_REQ

\* return ..., min_duration if min_duration != float('inf') else 0
ReturnedMin(md) == IF md # Inf THEN md ELSE 0

\* (variant for C4: the early stop without the bypass test)
EarlyStop_IgnoresBypass(bypass, md) ==
  md > 0 /\ md > BANDWIDTH_FINISH_REQUEST_DURATION

\* early stop of run_standard_test: not bypass and min > 0 and min > threshold
EarlyStop(bypass, md) ==
  ~bypass /\ md > 0 /\ md > BANDWIDTH_FINISH_REQUEST_DURATION

\* (variant for C5: the download skip test is missing)
Skipped_UploadOnly(m, dlf, ulf) == m.mtype = "upload" /\ ulf

\* (variant for C6: one flag for both directions)
Skipped_EitherFlag(m, dlf, ulf) ==
  m.mtype \in {"download", "upload"} /\ (dlf \/ ulf)

\* for ... in enumerate(measurements): the two skip tests
Skipped(m, dlf, ulf) ==
  \/ m.mtype = "download" /\ dlf
  \/ m.mtype = "upload" /\ ulf

\* (variant for C13: the 10 ms filter is missing)
Valid_NoFilter(d) == TRUE

\* if m['duration'] >= BANDWIDTH_MIN_REQUEST_DURATION
Valid(d) == d >= BANDWIDTH_MIN_REQUEST_DURATION

\* valid_measurements is not empty
AnyValid(r) == \E d \in Durations : r[d] > 0 /\ Valid(d)

Phase == measurements[idx]

\* the locals of a function that has returned no longer exist (the list
\* results is the return value and lives on in the caller)
NoLocals ==
  /\ i' = 0
  /\ current_size' = 0
  /\ retry_count' = 0
  /\ measurement_success' = FALSE
  /\ latencies' = 0
  /\ min_duration' = Inf
  /\ sizes' = << >>
  /\ last_status' = NoStatus
  /\ only429' = TRUE
  /\ sleeps' = << >>
  /\ appended' = 0
  /\ counted' = FALSE

(***************************************************************************)
(* run_standard_test: the sequencer loop                                   *)
(***************************************************************************)
\* the table is exhausted: fall out of the for loop to the final checks
SeqEnd ==
  /\ impl = "std" /\ pc = "seq" /\ idx > NPhases
  /\ pc' = "assemble"
  /\ UNCHANGED << failed, fnVars, acc, returned, latencies,
                  impl, idx, i, ctl, phaseVars, flags, executed, attempts,
                  attemptObs, outcome >>

\* a phase of a finished direction: continue
SeqSkip ==
  /\ impl = "std" /\ pc = "seq" /\ idx <= NPhases
  /\ Skipped(Phase, download_finished, upload_finished)
  /\ idx' = idx + 1
  /\ UNCHANGED << failed, fnVars, acc, returned, latencies,
                  impl, pc, i, ctl, phaseVars, flags, executed, attempts,
                  attemptObs, outcome >>

\* a phase that runs: call measure_latency / measure_*_bandwidth
SeqBegin ==
  /\ impl = "std" /\ pc = "seq" /\ idx <= NPhases
  /\ ~Skipped(Phase, download_finished, upload_finished)
  /\ executed' = Append(executed, idx)
  /\ i' = 0
  /\ results' = IF Phase.mtype = "latency" THEN results ELSE NoResults
  /\ min_duration' = Inf
  /\ pc' = IF Phase.mtype = "latency" THEN "lat" ELSE "for"
  /\ UNCHANGED << failed, fnVars, acc, returned, latencies,
                  impl, idx, ctl, flags, attempts, attemptObs, outcome >>

(***************************************************************************)
(* measure_latency                                                         *)
(***************************************************************************)
\* (variant for C31: a packet that gave no sample is sent again)
LatencyProbe_RetriesPacket ==
  /\ impl = "std" /\ pc = "lat" /\ i < Phase.count
  /\ attempts[idx] < Phase.count + 1
  /\ \E answer \in {"200", "429", "403", OtherStatus, NoAnswer} :
        /\ last_status' = answer
        /\ appended' = IF answer = "200" THEN 1 ELSE 0
        /\ latencies' = IF answer = "200" THEN latencies + 1 ELSE latencies
        /\ i' = IF answer = "200" THEN i + 1 ELSE i
  /\ attempts' = [attempts EXCEPT ![idx] = @ + 1]
  /\ UNCHANGED << failed, fnVars, acc, returned,
                  impl, pc, idx, ctl, phaseVars, flags, executed, sizes,
                  only429, sleeps, counted, outcome >>

\* one packet: response.ok appends a sample; a non-ok status and an
\* exception append nothing and the loop goes on
LatencyProbe ==
  /\ impl = "std" /\ pc = "lat" /\ i < Phase.count
  /\ \E answer \in {"200", "429", "403", OtherStatus, NoAnswer} :
        /\ last_status' = answer
        /\ appended' = IF answer = "200" THEN 1 ELSE 0
        /\ latencies' = IF answer = "200" THEN latencies + 1 ELSE latencies
  /\ i' = i + 1
  /\ attempts' = [attempts EXCEPT ![idx] = @ + 1]
  /\ UNCHANGED << failed, fnVars, acc, returned,
                  impl, pc, idx, ctl, phaseVars, flags, executed, sizes,
                  only429, sleeps, counted, outcome >>

\* return latencies; all_latency_measurements.extend(latencies)
LatencyReturn ==
  /\ impl = "std" /\ pc = "lat" /\ i = Phase.count
  /\ any_latency' = (any_latency \/ latencies > 0)
  /\ UNCHANGED << any_download, any_upload, results >>
  /\ pc' = "seq"
  /\ idx' = idx + 1
  /\ NoLocals
  /\ UNCHANGED << failed, fnVars, returned,
                  impl, flags, executed, attempts, outcome >>

(***************************************************************************)
(* measure_download_bandwidth / measure_upload_bandwidth                   *)
(* (the two functions hold the same loops; Phase.mtype tells them apart)   *)
(***************************************************************************)
\* (variant for C35: the retry state is carried from attempt to attempt)
ForNext_KeepsRetryState ==
  /\ impl = "std" /\ pc = "for" /\ i < Phase.count
  /\ current_size' = IF i = 0 THEN Phase.bytes ELSE current_size
  /\ retry_count' = IF i = 0 THEN 0 ELSE retry_count
  /\ measurement_success' = FALSE
  /\ sizes' = << >>
  /\ last_status' = NoStatus
  /\ only429' = TRUE
  /\ sleeps' = << >>
  /\ appended' = 0
  /\ counted' = FALSE
  /\ attempts' = [attempts EXCEPT ![idx] = @ + 1]
  /\ pc' = "loop"
  /\ UNCHANGED << failed, fnVars, acc, returned, latencies,
                  impl, idx, i, phaseVars, flags, executed, outcome >>

\* for i in range(count): the next attempt starts with a fresh retry state
ForNext ==
  /\ impl = "std" /\ pc = "for" /\ i < Phase.count
  /\ current_size' = Phase.bytes
  /\ retry_count' = 0
  /\ measurement_success' = FALSE
  /\ sizes' = << >>
  /\ last_status' = NoStatus
  /\ only429' = TRUE
  /\ sleeps' = << >>
  /\ appended' = 0
  /\ counted' = FALSE
  /\ attempts' = [attempts EXCEPT ![idx] = @ + 1]
  /\ pc' = "loop"
  /\ UNCHANGED << failed, fnVars, acc, returned, latencies,
                  impl, idx, i, phaseVars, flags, executed, outcome >>

\* break / end of the while loop: the for loop moves to the next attempt
EndAttempt ==
  /\ i' = i + 1
  /\ pc' = "for"

\* (variant for C7: a failed attempt ends the phase)
Fail_CutsPhaseShort ==
  /\ counted' = TRUE
  /\ i' = measurements[idx].count
  /\ pc' = "for"
  /\ UNCHANGED << ctl, phaseVars, sleeps, appended >>

\* (variant for C8: a failed attempt leaves a result behind)
Fail_AppendsResult ==
  /\ counted' = TRUE
  /\ EndAttempt
  /\ results' = [results EXCEPT ![5] = @ + 1]
  /\ appended' = appended + 1
  /\ UNCHANGED << ctl, min_duration, sleeps >>

\* errors += 1; break   (both except clauses)
Fail ==
  /\ counted' = TRUE
  /\ EndAttempt
  /\ UNCHANGED << ctl, phaseVars, sleeps, appended >>

\* (variant for C12: a transport exception is answered by a retry)
OnException_Retries ==
  /\ retry_count' = retry_count + 1
  /\ UNCHANGED << pc, i, current_size, measurement_success, phaseVars,
                  sleeps, appended, counted >>

\* except Exception as e: errors += 1; break
OnException == Fail

\* (variant for C37: the retry after a RateLimitError is not counted)
OnRateLimitError_KeepsCount ==
  IF GivesUp(retry_count, current_size)
  THEN Fail
  ELSE /\ sleeps' = Append(sleeps, 100)
       /\ UNCHANGED << pc, i, ctl, phaseVars, appended, counted >>

\* except RateLimitError as e
OnRateLimitError ==
  IF GivesUp(retry_count, current_size)
  THEN Fail
  ELSE /\ retry_count' = retry_count + 1
       /\ sleeps' = Append(sleeps, 100)
       /\ UNCHANGED << pc, i, current_size, measurement_success, phaseVars,
                       appended, counted >>

\* if response.status_code == 429, with Retry-After header h
On429(h) ==
  IF RetryAfterRaises(h)
  THEN Fail \* ValueError of float(): except Exception
  ELSE IF CanShrink(current_size) /\ NextSize(current_size) < current_size
  THEN /\ current_size' = NextSize(current_size)
       /\ sleeps' = Append(sleeps, 100)
       /\ retry_count' = retry_count + 1
       /\ UNCHANGED << pc, i, measurement_success, phaseVars, appended,
                       counted >>
  ELSE IF CanBackoff(retry_count)
  THEN /\ sleeps' = Append(sleeps, WaitTime(h, retry_count))
       /\ retry_count' = retry_count + 1
       /\ UNCHANGED << pc, i, current_size, measurement_success, phaseVars,
                       appended, counted >>
  ELSE OnRateLimitError \* raise RateLimitError(429, ...)

\* if response.ok: the result is appended
OnSuccess(d) ==
  /\ results' = [results EXCEPT ![d] = @ + 1]
  /\ min_duration' = Min(min_duration, d)
  /\ measurement_success' = TRUE
  /\ appended' = appended + 1
  /\ UNCHANGED << pc, i, current_size, retry_count, sleeps, counted >>

\* one pass of the while loop: one request and the handling of its answer
Request ==
  /\ impl = "std" /\ pc = "loop"
  /\ WhileCond(retry_count, measurement_success)
  /\ sizes' = Append(sizes, current_size)
  /\ \/ \E h \in RetryAfterHeaders :
           /\ last_status' = "429"
           /\ only429' = only429
           /\ On429(h)
     \/ /\ last_status' = "403"
        /\ only429' = FALSE
        /\ OnRateLimitError
     \/ /\ last_status' = OtherStatus
        /\ only429' = FALSE
        /\ OnRateLimitError
     \/ \E d \in Durations :
           /\ last_status' = "200"
           /\ only429' = FALSE
           /\ OnSuccess(d)
     \/ /\ last_status' = NoAnswer \* connect / timeout / reset
        /\ only429' = FALSE
        /\ OnException
     \/ /\ last_status' = NoAnswer \* 2xx, then an exception while streaming
        /\ only429' = FALSE
        /\ OnException
  /\ UNCHANGED << failed, fnVars, acc, returned, latencies,
                  impl, idx, flags, executed, attempts, outcome >>

\* the while condition is false: the attempt is over
WhileExit ==
  /\ impl = "std" /\ pc = "loop"
  /\ ~WhileCond(retry_count, measurement_success)
  /\ EndAttempt
  /\ UNCHANGED << failed, fnVars, acc, returned, latencies,
                  impl, idx, ctl, phaseVars, flags, executed, attempts,
                  attemptObs, outcome >>

\* range(count) is exhausted: return results, min; back in
\* run_standard_test the valid results are added to the accumulator of the
\* direction, the early-stop check runs and the loop moves on.
\* No RateLimitError leaves measure_*_bandwidth (every raise is inside the
\* try of the while loop), so the except clause of the caller, the only
\* place that appends to failed_download_sizes / failed_upload_sizes,
\* never runs.
Return ==
  /\ impl = "std" /\ pc = "for" /\ i = Phase.count
  /\ download_finished' =
       IF Phase.mtype = "download"
          /\ EarlyStop(Phase.bypass, ReturnedMin(min_duration))
       THEN TRUE ELSE download_finished
  /\ upload_finished' =
       IF Phase.mtype = "upload"
          /\ EarlyStop(Phase.bypass, ReturnedMin(min_duration))
       THEN TRUE ELSE upload_finished
  /\ any_download' =
       (any_download \/ (Phase.mtype = "download" /\ AnyValid(results)))
  /\ any_upload' =
       (any_upload \/ (Phase.mtype = "upload" /\ AnyValid(results)))
  /\ UNCHANGED << any_latency, results >>
  /\ idx' = idx + 1
  /\ pc' = "seq"
  /\ NoLocals
  /\ UNCHANGED << failed, fnVars, returned,
                  impl, executed, attempts, outcome >>

\* (variant for C39: the directions are checked before the latency)
FinalResult_LatencyLast(lat, dl, ul, fdl, ful, report) ==
  IF ~dl THEN Failure("download", fdl)
  ELSE IF ~ul THEN Failure("upload", ful)
  ELSE IF ~lat THEN Failure("latency", << >>)
  ELSE report

\* the final checks of run_standard_test, in the order of the code
FinalResult(lat, dl, ul, fdl, ful, report) ==
  IF ~lat THEN Failure("latency", << >>)
  ELSE IF ~dl THEN Failure("download", fdl)
  ELSE IF ~ul THEN Failure("upload", ful)
  ELSE report

\* the for loop over the table is left normally: the final checks and the
\* report follow (the run was not aborted inside the loop)
Assemble ==
  /\ impl = "std" /\ pc = "assemble"
  /\ pc' = "done"
  /\ outcome' = "assembled"
  /\ returned' = FinalResult(any_latency, any_download, any_upload,
                             failed_download_sizes, failed_upload_sizes,
                             Report("percentile", "percentile", ""))
  /\ UNCHANGED << failed, fnVars, acc, latencies,
                  impl, idx, i, ctl, phaseVars, flags, executed, attempts,
                  attemptObs >>

StdNext ==
  \/ SeqEnd \/ SeqSkip \/ SeqBegin
  \/ LatencyProbe \/ LatencyReturn
  \/ ForNext \/ Request \/ WhileExit \/ Return
  \/ Assemble

(***************************************************************************)
(* _run_full of the packages under src/python                              *)
(***************************************************************************)
FullPhase == MEASUREMENTS[idx]

\* early stop of do_download / do_upload: not bypass and min_dur > threshold
FullEarlyStop(bypass, md) ==
  ~bypass /\ md > BANDWIDTH_FINISH_REQUEST_DURATION_MS

\* for m in MEASUREMENTS: the two skip tests
FullSkipped(m, dlf, ulf) ==
  \/ m.mtype = "download" /\ dlf
  \/ m.mtype = "upload" /\ ulf

\* (variant for C22) nothing is filtered out
FullValid_NoFilter(d) == d >= 0

\* if p["duration"] >= BANDWIDTH_MIN_REQUEST_DURATION_MS and p["bps"]
FullValid(d) == d >= BANDWIDTH_MIN_REQUEST_DURATION_MS

\* dl_pts / ul_pts / dl_bps / ul_bps: [... if p["duration"] >= 10 and p["bps"]]
FullPts(points) == {d \in points.durations : FullValid(d)}

FullAnyValid(r) == \E d \in Durations : r[d] > 0 /\ FullValid(d)

\* an earlier phase of the table has requested the size of phase p in the
\* same direction
RequestedBefore(p) ==
  \E q \in 1..(p - 1) :
     /\ MEASUREMENTS[q].mtype = MEASUREMENTS[p].mtype
     /\ MEASUREMENTS[q].bytes = MEASUREMENTS[p].bytes

\* down[bytes_req].append(...); down[bytes_req] = down[bytes_req][-count:]
\* seen at the end of the phase: r holds the points the phase appended,
\* before tells whether a point of at least 10 ms was stored by the earlier
\* phases.  The points of other sizes are untouched.  In MEASUREMENTS one
\* size is requested twice in a direction, 100,000 bytes for download, the
\* first time with count 1 and before every other download: the one point
\* stored before is dropped exactly when the phase appends count points.
Stored(p, before, r) ==
  IF RequestedBefore(p) /\ NResults(r) >= MEASUREMENTS[p].count
  THEN FullAnyValid(r)
  ELSE before \/ FullAnyValid(r)

\* (variant for C17: a 401 is not turned into an HTTPError)
RaisesHTTPError_Swallows401(status) == status \in {"429", "403", OtherStatus}

\* _fetch: a 401 and every status raise_for_status rejects are HTTPError
RaisesHTTPError(status) == status \in {"401", "429", "403", OtherStatus}

\* except requests.HTTPError: raise  -- the exception leaves _run_full
Raise ==
  /\ pc' = "done"
  /\ outcome' = "raised"

\* info = _get_ip(...): an HTTPError is re-raised, any other failure
\* yields empty strings
GetIP ==
  /\ impl = "full" /\ pc = "getip"
  /\ \E answer \in {"200", "401", "429", "403", OtherStatus, NoAnswer} :
        /\ last_status' = answer
        /\ IF RaisesHTTPError(answer)
           THEN Raise
           ELSE pc' = "seq" /\ UNCHANGED outcome
  /\ UNCHANGED << failed, fnVars, acc, returned, latencies,
                  impl, idx, i, ctl, phaseVars, flags, executed, attempts,
                  sizes, only429, sleeps, appended, counted >>

FullSeqEnd ==
  /\ impl = "full" /\ pc = "seq" /\ idx > NPhases
  /\ pc' = "assemble"
  /\ UNCHANGED << failed, fnVars, acc, returned, latencies,
                  impl, idx, i, ctl, phaseVars, flags, executed, attempts,
                  attemptObs, outcome >>

FullSeqSkip ==
  /\ impl = "full" /\ pc = "seq" /\ idx <= NPhases
  /\ FullSkipped(FullPhase, download_finished, upload_finished)
  /\ idx' = idx + 1
  /\ UNCHANGED << failed, fnVars, acc, returned, latencies,
                  impl, pc, i, ctl, phaseVars, flags, executed, attempts,
                  attemptObs, outcome >>

\* do_latency / do_download / do_upload is called
FullSeqBegin ==
  /\ impl = "full" /\ pc = "seq" /\ idx <= NPhases
  /\ ~FullSkipped(FullPhase, download_finished, upload_finished)
  /\ executed' = Append(executed, idx)
  /\ i' = 0
  /\ results' = NoResults
  /\ min_duration' = Inf
  /\ last_status' = NoStatus
  /\ pc' = IF FullPhase.mtype = "latency" THEN "lat" ELSE "for"
  /\ UNCHANGED << failed, fnVars, acc, returned, latencies,
                  impl, idx, ctl, flags, attempts, sizes, only429, sleeps,
                  appended, counted, outcome >>

\* do_latency: one packet
FullLatencyProbe ==
  /\ impl = "full" /\ pc = "lat" /\ i < FullPhase.count
  /\ attempts' = [attempts EXCEPT ![idx] = @ + 1]
  /\ \E answer \in {"200", "401", "429", "403", OtherStatus, NoAnswer} :
        /\ last_status' = answer
        /\ appended' = IF answer = "200" THEN 1 ELSE 0
        /\ any_latency' = (any_latency \/ answer = "200")
        /\ IF RaisesHTTPError(answer)
           THEN Raise /\ UNCHANGED i
           ELSE i' = i + 1 /\ UNCHANGED << pc, outcome >>
  /\ UNCHANGED << any_download, any_upload >>
  /\ UNCHANGED << failed, fnVars, returned, latencies,
                  impl, idx, ctl, phaseVars, flags, executed, sizes, only429,
                  sleeps, counted >>

FullLatencyReturn ==
  /\ impl = "full" /\ pc = "lat" /\ i = FullPhase.count
  /\ pc' = "seq"
  /\ idx' = idx + 1
  /\ NoLocals
  /\ results' = NoResults
  /\ UNCHANGED << failed, fnVars, acc, returned,
                  impl, flags, executed, attempts, outcome >>

\* do_download / do_upload: one probe of the for loop (no retry)
FullProbe ==
  /\ impl = "full" /\ pc = "for" /\ i < FullPhase.count
  /\ attempts' = [attempts EXCEPT ![idx] = @ + 1]
  /\ sizes' = << FullPhase.bytes >>
  /\ \/ \E d \in Durations :
           /\ last_status' = "200"
           /\ results' = [results EXCEPT ![d] = @ + 1]
           /\ min_duration' = Min(min_duration, d)
           /\ appended' = 1
           /\ i' = i + 1
           /\ UNCHANGED << pc, outcome >>
     \/ \E answer \in {"401", "429", "403", OtherStatus} :
           /\ last_status' = answer
           /\ appended' = 0
           /\ Raise
           /\ UNCHANGED << i, phaseVars >>
     \/ /\ last_status' = NoAnswer \* except Exception: logged, dropped
        /\ appended' = 0
        /\ i' = i + 1
        /\ UNCHANGED << pc, outcome, phaseVars >>
  /\ UNCHANGED << failed, fnVars, acc, returned, latencies,
                  impl, idx, ctl, flags, executed, only429, sleeps, counted >>

\* after the for loop of do_download / do_upload: the early-stop check
FullReturn ==
  /\ impl = "full" /\ pc = "for" /\ i = FullPhase.count
  /\ download_finished' =
       IF FullPhase.mtype = "download"
          /\ FullEarlyStop(FullPhase.bypass, min_duration)
       THEN TRUE ELSE download_finished
  /\ upload_finished' =
       IF FullPhase.mtype = "upload"
          /\ FullEarlyStop(FullPhase.bypass, min_duration)
       THEN TRUE ELSE upload_finished
  /\ any_download' =
       IF FullPhase.mtype = "download"
       THEN Stored(idx, any_download, results) ELSE any_download
  /\ any_upload' =
       IF FullPhase.mtype = "upload"
       THEN Stored(idx, any_upload, results) ELSE any_upload
  /\ UNCHANGED any_latency
  /\ idx' = idx + 1
  /\ pc' = "seq"
  /\ NoLocals
  /\ results' = NoResults
  /\ UNCHANGED << failed, fnVars, returned,
                  impl, executed, attempts, outcome >>

\* x = percentile(pts, ...) if pts else 0.0
OrZero(any) == IF any THEN "percentile" ELSE "0.0"

\* the loop over MEASUREMENTS is left normally: the report is built
FullAssemble ==
  /\ impl = "full" /\ pc = "assemble"
  /\ pc' = "done"
  /\ outcome' = "assembled"
  /\ returned' = Report(OrZero(any_download), OrZero(any_upload),
                        OrZero(any_latency))
  /\ UNCHANGED << failed, fnVars, acc, latencies,
                  impl, idx, i, ctl, phaseVars, flags, executed, attempts,
                  attemptObs >>

FullNext ==
  \/ GetIP
  \/ FullSeqEnd \/ FullSeqSkip \/ FullSeqBegin
  \/ FullLatencyProbe \/ FullLatencyReturn
  \/ FullProbe \/ FullReturn
  \/ FullAssemble

(***************************************************************************)
(* _run_reduced of src/python/cf_speedtest                                 *)
(***************************************************************************)
\* measure_latency(base_url, num_packets=3, ...)
ReducedPackets == 3

\* what no action of _run_reduced touches
reducedKept ==
  << failed, impl, ctl, phaseVars, flags, executed, attempts, sizes, only429,
     sleeps, appended, counted, latencies, measurement_sizes, pctVars,
     callVars, probeVars, eqVars, winVars >>

\* down_pts.append({"bps": ..., "duration": d}) for a request of b bytes
WithPoint(points, d, mtype, b) ==
  [durations |-> points.durations \cup {d},
   repeated |-> points.repeated + (IF Counted(mtype, b) THEN 1 ELSE 0)]

\* measure_latency: one packet
ReducedLatencyProbe ==
  /\ impl = "reduced" /\ pc = "rlat" /\ i < ReducedPackets
  /\ \E answer \in {"200", "401", "429", "403", OtherStatus, NoAnswer} :
        /\ last_status' = answer
        /\ any_latency' = (any_latency \/ answer = "200")
        /\ IF answer = "200"
           THEN \E v \in Pings :
                   all_latency_measurements' =
                     all_latency_measurements
                       \o Samples(Len(all_latency_measurements), 1, v)
           ELSE UNCHANGED all_latency_measurements
        /\ IF RaisesHTTPError(answer)
           THEN Raise /\ UNCHANGED i
           ELSE i' = i + 1 /\ UNCHANGED << pc, outcome >>
  /\ UNCHANGED << idx, any_download, any_upload, returned, download_results,
                  upload_results, latency_measurements, dl_pts, ul_pts,
                  reducedKept >>

\* return out; for size in measurement_sizes
ReducedLatencyReturn ==
  /\ impl = "reduced" /\ pc = "rlat" /\ i = ReducedPackets
  /\ pc' = "rdown"
  /\ i' = 0
  /\ UNCHANGED << idx, last_status, acc, returned, outcome, dataVars,
                  reducedKept >>

\* the download probe of the size
ReducedDownload ==
  /\ impl = "reduced" /\ pc = "rdown" /\ idx <= Len(measurement_sizes)
  /\ \/ \E d \in Durations :
           /\ last_status' = "200"
           /\ any_download' = (any_download \/ FullValid(d))
           /\ download_results' =
                WithPoint(download_results, d, "download",
                          measurement_sizes[idx])
           /\ pc' = "rup"
           /\ UNCHANGED outcome
     \/ \E answer \in {"401", "429", "403", OtherStatus} :
           /\ last_status' = answer
           /\ Raise
           /\ UNCHANGED << any_download, download_results >>
     \/ /\ last_status' = NoAnswer \* except Exception: logged, dropped
        /\ pc' = "rup"
        /\ UNCHANGED << any_download, download_results, outcome >>
  /\ UNCHANGED << idx, i, any_latency, any_upload, returned,
                  all_latency_measurements, upload_results,
                  latency_measurements, dl_pts, ul_pts, reducedKept >>

\* the upload probe of the size; the loop moves to the next size
ReducedUpload ==
  /\ impl = "reduced" /\ pc = "rup"
  /\ \/ \E d \in Durations :
           /\ last_status' = "200"
           /\ any_upload' = (any_upload \/ FullValid(d))
           /\ upload_results' =
                WithPoint(upload_results, d, "upload", measurement_sizes[idx])
           /\ pc' = "rdown" /\ idx' = idx + 1
           /\ UNCHANGED outcome
     \/ \E answer \in {"401", "429", "403", OtherStatus} :
           /\ last_status' = answer
           /\ Raise
           /\ UNCHANGED << idx, any_upload, upload_results >>
     \/ /\ last_status' = NoAnswer
        /\ pc' = "rdown" /\ idx' = idx + 1
        /\ UNCHANGED << any_upload, upload_results, outcome >>
  /\ UNCHANGED << i, any_latency, any_download, returned,
                  all_latency_measurements, download_results,
                  latency_measurements, dl_pts, ul_pts, reducedKept >>

\* after the loop: dl_bps and ul_bps, info = _get_ip(...), then the report
ReducedReturn ==
  /\ impl = "reduced" /\ pc = "rdown" /\ idx > Len(measurement_sizes)
  /\ dl_pts' = FullPts(download_results)
  /\ ul_pts' = FullPts(upload_results)
  /\ \E answer \in {"200", "401", "429", "403", OtherStatus, NoAnswer} :
        /\ last_status' = answer
        /\ IF RaisesHTTPError(answer)
           THEN Raise /\ UNCHANGED << returned, latency_measurements >>
           ELSE /\ pc' = "done"
                /\ outcome' = "reported"
                /\ latency_measurements' = all_latency_measurements
                /\ returned' = Report(OrZero(any_download),
                                      OrZero(any_upload),
                                      OrZero(any_latency))
  /\ UNCHANGED << idx, i, acc, all_latency_measurements, download_results,
                  upload_results, reducedKept >>

ReducedNext ==
  \/ ReducedLatencyProbe \/ ReducedLatencyReturn
  \/ ReducedDownload \/ ReducedUpload \/ ReducedReturn

Next == StdNext \/ FullNext \/ ReducedNext

Spec == Init /\ [][Next]_vars

\* run_standard_test of src/cf_speedtest when every transport call returns:
\* a run that can take a step takes one
StdInit == Init /\ impl = "std"
LiveSpec == StdInit /\ [][StdNext]_vars /\ WF_vars(StdNext)

(***************************************************************************)
(* The percentile of a list: run_standard_test normalises the target it is *)
(* given and calls percentile().  The target and the list are the inputs.  *)
(***************************************************************************)
\* the longest list and the largest value tried
MaxLen == 4
MaxVal == 4
ValueLists == UNION { [1..k -> 1..MaxVal] : k \in 0..MaxLen }

\* targets tried (in 1/Unit): 0, 0.5, 1, 2, 25, 50, 75, 90 and 100
Targets ==
  {0, Unit \div 2, Unit, 2 * Unit, 25 * Unit, 50 * Unit, 75 * Unit,
   90 * Unit, HUNDRED * Unit}

\* what the percentile computation leaves alone
runVars ==
  << impl, idx, i, ctl, phaseVars, flags, executed, attempts, attemptObs,
     outcome, latencies, acc, failed, returned, measurement_sizes,
     callVars, dataVars, probeVars, eqVars, winVars >>

PctInit ==
  /\ impl = "std"
  /\ pc = "normalise"
  /\ measurement_sizes = << >>
  /\ Fresh
  /\ percentile_val \in Targets
  /\ bandwidth_percentile = 0
  /\ values \in ValueLists
  /\ pct = 0
  /\ bytes_size = 0
  /\ count = 0
  /\ response = NoResponse
  /\ result = NoResult
  /\ down = NoCall
  /\ up = NoCall
  /\ timings = << >>
  /\ history = << >>

\* run_standard_test: bandwidth_percentile = ...
Normalise ==
  /\ pc = "normalise"
  /\ bandwidth_percentile' = Normalised(percentile_val)
  /\ pc' = "percentile"
  /\ UNCHANGED << runVars, percentile_val, values, pct >>

\* run_standard_test: percentile(valid_bps, bandwidth_percentile)
CallPercentile ==
  /\ pc = "percentile"
  /\ pct' = percentile(values, bandwidth_percentile)
  /\ pc' = "returned"
  /\ UNCHANGED << runVars, percentile_val, bandwidth_percentile, values >>

\* run_standard_test, from "Convert from bits per second to bytes per
\* second" to the return: download_bps and upload_bps are the percentile
\* just computed (the same list stands for both directions here), the
\* chosen latency samples are an input, not empty (line 578)
ReturnReport ==
  /\ pc = "returned"
  /\ pc' = "reported"
  /\ \E k \in {1, MainLatencyCount}, v \in Pings :
        returned' = FinalResult(TRUE, pct # 0, pct # 0,
                                failed_download_sizes, failed_upload_sizes,
                                StdReport(Over(pct, 8), Over(pct, 8),
                                          Samples(0, k, v)))
  /\ UNCHANGED << impl, idx, i, ctl, phaseVars, flags, executed, attempts,
                  attemptObs, outcome, latencies, acc, failed,
                  measurement_sizes, callVars, dataVars, pctVars,
                  probeVars, eqVars, winVars >>

PctNext == Normalise \/ CallPercentile \/ ReturnReport

PctSpec == PctInit /\ [][PctNext]_vars

(***************************************************************************)
(* measure_download_bandwidth / measure_upload_bandwidth called on their   *)
(* own: the functions are module-level and take any size and count.  The   *)
(* while loop is the one of the run (Request, WhileExit); only the head of *)
(* the for loop and the return read the arguments instead of the table.    *)
(***************************************************************************)
\* the largest count tried
MaxCount == 2
\* sizes tried: the floor, sizes one, two and three halvings above it, and
\* one that four halvings do not bring to the floor
CallSizes == {100000, 150000, 250000, 400000, 2000000}

CtlInit ==
  /\ impl = "std"
  /\ pc = "for"
  /\ measurement_sizes = << >>
  /\ Fresh
  /\ percentile_val = DefaultPercentile
  /\ bandwidth_percentile = Normalised(percentile_val)
  /\ values = << >>
  /\ pct = 0
  /\ bytes_size \in CallSizes
  /\ count \in 1..MaxCount
  /\ response = NoResponse
  /\ result = NoResult
  /\ down = NoCall
  /\ up = NoCall
  /\ timings = << >>
  /\ history = << >>

\* for i in range(count): current_size = bytes_size; retry_count = 0; ...
CallForNext ==
  /\ bytes_size > 0 /\ pc = "for" /\ i < count
  /\ current_size' = bytes_size
  /\ retry_count' = 0
  /\ measurement_success' = FALSE
  /\ sizes' = << >>
  /\ last_status' = NoStatus
  /\ only429' = TRUE
  /\ sleeps' = << >>
  /\ appended' = 0
  /\ counted' = FALSE
  /\ pc' = "loop"
  /\ UNCHANGED << failed, fnVars, acc, returned, latencies, attempts,
                  impl, idx, i, phaseVars, flags, executed, outcome >>

\* return results, min_duration if min_duration != float('inf') else 0
CallReturn ==
  /\ bytes_size > 0 /\ pc = "for" /\ i = count
  /\ pc' = "returned"
  /\ min_duration' = ReturnedMin(min_duration)
  /\ UNCHANGED << failed, fnVars, acc, returned, latencies, attempts,
                  impl, idx, i, ctl, results, flags, executed, attemptObs,
                  outcome >>

CtlNext == CallForNext \/ Request \/ WhileExit \/ CallReturn

CtlSpec == CtlInit /\ [][CtlNext]_vars

(***************************************************************************)
(* The sequencers with their samples.  One step is one pass of the loop    *)
(* over the phase table: a call of a measuring function is taken as a      *)
(* whole, and what it hands back is chosen among the lists it can produce  *)
(* (at most count results, one per attempt; any number of latency samples  *)
(* up to the number of packets).  The loop head (SeqSkip, SeqEnd and their *)
(* counterparts of _run_full) and _run_reduced are the ones above.         *)
(***************************************************************************)
\* the numbers of samples tried for a call with count c: none, one, all
\* but one, all
ReturnedCounts(c) == {0, 1, c}

\* the lists of results tried for a call with count c: so many of each
\* duration, at most c in all
ReturnedLists(c) ==
  {r \in [Durations -> ReturnedCounts(c)] : NResults(r) <= c}

\* min_duration after the for loop of the call
MinDuration(r) ==
  IF DurationsOf(r) = {} THEN Inf
  ELSE CHOOSE d \in DurationsOf(r) : \A x \in DurationsOf(r) : d <= x

\* len(valid_measurements)
NValid(r) ==
  (IF Valid(5) THEN r[5] ELSE 0) + (IF Valid(500) THEN r[500] ELSE 0)
    + (IF Valid(1500) THEN r[1500] ELSE 0)

\* download_results.extend(valid_measurements), for the call of phase m
Extended(results_so_far, r, m) ==
  [durations |-> results_so_far.durations
                   \cup {d \in DurationsOf(r) : Valid(d)},
   repeated |-> results_so_far.repeated
                  + (IF Counted(m.mtype, m.bytes) THEN NValid(r) ELSE 0)]

\* (variant for C21: the first 20 samples are taken)
Last_First(s, k) == SubSeq(s, 1, k)

\* s[-k:] for a list of at least k elements
Last(s, k) == SubSeq(s, Len(s) - k + 1, Len(s))

\* the latency samples of the report
Chosen(s) == IF Len(s) >= MainLatencyCount THEN Last(s, MainLatencyCount)
             ELSE s

\* valid_bps of the final computation (empty when the accumulator is)
ValidBps(pts) == {d \in pts.durations : Valid(d)}

\* what no step of the sequencers with samples touches
seqKept ==
  << impl, i, ctl, phaseVars, executed, attempts, attemptObs, latencies, acc,
     failed, measurement_sizes, pctVars, callVars, probeVars, eqVars,
     winVars >>

\* latencies = measure_latency(num_packets=count);
\* all_latency_measurements.extend(latencies)
LatencyCall ==
  /\ impl = "std" /\ pc = "seq" /\ idx <= NPhases
  /\ Phase.mtype = "latency"
  /\ \E k \in ReturnedCounts(Phase.count), v \in Pings :
        all_latency_measurements' =
          all_latency_measurements
            \o Samples(Len(all_latency_measurements), k, v)
  /\ idx' = idx + 1
  /\ UNCHANGED << pc, flags, outcome, returned, download_results,
                  upload_results, latency_measurements, dl_pts, ul_pts,
                  seqKept >>

\* measurements_list, min_duration = measure_*_bandwidth(...); the valid
\* results are added to the results of the direction; the early-stop check
BandwidthCall ==
  /\ impl = "std" /\ pc = "seq" /\ idx <= NPhases
  /\ Phase.mtype \in {"download", "upload"}
  /\ ~Skipped(Phase, download_finished, upload_finished)
  /\ \E r \in ReturnedLists(Phase.count) :
        /\ download_results' =
             IF Phase.mtype = "download"
             THEN Extended(download_results, r, Phase)
             ELSE download_results
        /\ upload_results' =
             IF Phase.mtype = "upload"
             THEN Extended(upload_results, r, Phase)
             ELSE upload_results
        /\ download_finished' =
             IF Phase.mtype = "download"
                /\ EarlyStop(Phase.bypass, ReturnedMin(MinDuration(r)))
             THEN TRUE ELSE download_finished
        /\ upload_finished' =
             IF Phase.mtype = "upload"
                /\ EarlyStop(Phase.bypass, ReturnedMin(MinDuration(r)))
             THEN TRUE ELSE upload_finished
  /\ idx' = idx + 1
  /\ UNCHANGED << pc, outcome, returned, all_latency_measurements,
                  latency_measurements, dl_pts, ul_pts, seqKept >>

\* after the loop: the latency samples are chosen, the valid bps of each
\* direction are collected and the report is built or the run fails
Finish ==
  /\ impl = "std" /\ pc = "assemble"
  /\ pc' = "done"
  /\ outcome' = "assembled"
  /\ latency_measurements' = Chosen(all_latency_measurements)
  /\ dl_pts' = IF latency_measurements' = << >> THEN {}
               ELSE ValidBps(download_results)
  /\ ul_pts' = IF latency_measurements' = << >> THEN {}
               ELSE ValidBps(upload_results)
  /\ returned' =
       FinalResult(latency_measurements' # << >>, dl_pts' # {}, ul_pts' # {},
                   failed_download_sizes, failed_upload_sizes,
                   StdReport("percentile", "percentile",
                             latency_measurements'))
  /\ UNCHANGED << idx, flags, all_latency_measurements, download_results,
                  upload_results, seqKept >>

SeqStdNext == SeqEnd \/ SeqSkip \/ LatencyCall \/ BandwidthCall \/ Finish

\* down[bytes_req].append(...); down[bytes_req] = down[bytes_req][-count:]
\* for the points r that phase p appended.  As for Stored, the points of
\* the one size requested twice are, when its second phase runs, all the
\* points stored so far: they are dropped when the phase appends count
\* points.
Windowed(points, r, p) ==
  [durations |->
     IF RequestedBefore(p) /\ NResults(r) >= MEASUREMENTS[p].count
     THEN DurationsOf(r)
     ELSE points.durations \cup DurationsOf(r),
   repeated |->
     IF Counted(MEASUREMENTS[p].mtype, MEASUREMENTS[p].bytes)
     THEN Min(MEASUREMENTS[p].count, points.repeated + NResults(r))
     ELSE points.repeated]

\* sum(abs(pings[i] - pings[i - 1]) for i in range(1, len(pings)))
RECURSIVE SumAbsDiff(_)
SumAbsDiff(s) ==
  IF Len(s) < 2 THEN 0
  ELSE (IF s[2].ping >= s[1].ping THEN s[2].ping - s[1].ping
        ELSE s[1].ping - s[2].ping) + SumAbsDiff(Tail(s))

\* _jitter(latencies) if len(latencies) >= 2 else 0.0
jitter(s) == IF Len(s) >= 2 THEN Over(SumAbsDiff(s), Len(s) - 1)
             ELSE Over(0, 1)

\* the report of _run_full from what the run collected
Collected(lat, dl, ul) ==
  FullReport(OrZero(dl # {}), OrZero(ul # {}), OrZero(lat # << >>),
             jitter(lat), lat)

\* do_latency(m["num_packets"], session): k probes give a sample; the call
\* returns, or a probe is answered by an error status and the HTTPError
\* ends the run
DoLatency ==
  /\ impl = "full" /\ pc = "seq" /\ idx <= NPhases
  /\ FullPhase.mtype = "latency"
  /\ \E k \in ReturnedCounts(FullPhase.count), v \in Pings :
        /\ all_latency_measurements' =
             all_latency_measurements
               \o Samples(Len(all_latency_measurements), k, v)
        /\ \/ idx' = idx + 1 /\ UNCHANGED << pc, outcome >>
           \/ k < FullPhase.count /\ Raise /\ UNCHANGED idx
  /\ UNCHANGED << flags, returned, download_results, upload_results,
                  latency_measurements, dl_pts, ul_pts, seqKept >>

\* do_download / do_upload: the probes append the points r; the call
\* returns after the early-stop check, or a probe is answered by an error
\* status and the HTTPError ends the run
DoBandwidth ==
  /\ impl = "full" /\ pc = "seq" /\ idx <= NPhases
  /\ FullPhase.mtype \in {"download", "upload"}
  /\ ~FullSkipped(FullPhase, download_finished, upload_finished)
  /\ \E r \in ReturnedLists(FullPhase.count) :
        /\ download_results' =
             IF FullPhase.mtype = "download"
             THEN Windowed(download_results, r, idx) ELSE download_results
        /\ upload_results' =
             IF FullPhase.mtype = "upload"
             THEN Windowed(upload_results, r, idx) ELSE upload_results
        /\ \/ /\ download_finished' =
                   IF FullPhase.mtype = "download"
                      /\ FullEarlyStop(FullPhase.bypass, MinDuration(r))
                   THEN TRUE ELSE download_finished
              /\ upload_finished' =
                   IF FullPhase.mtype = "upload"
                      /\ FullEarlyStop(FullPhase.bypass, MinDuration(r))
                   THEN TRUE ELSE upload_finished
              /\ idx' = idx + 1
              /\ UNCHANGED << pc, outcome >>
           \/ /\ NResults(r) < FullPhase.count
              /\ Raise
              /\ UNCHANGED << idx, flags >>
  /\ UNCHANGED << returned, all_latency_measurements, latency_measurements,
                  dl_pts, ul_pts, seqKept >>

\* after the loop over MEASUREMENTS: dl_pts, ul_pts and the report
FullFinish ==
  /\ impl = "full" /\ pc = "assemble"
  /\ pc' = "done"
  /\ outcome' = "assembled"
  /\ latency_measurements' = all_latency_measurements
  /\ dl_pts' = FullPts(download_results)
  /\ ul_pts' = FullPts(upload_results)
  /\ returned' = Collected(latency_measurements', dl_pts', ul_pts')
  /\ UNCHANGED << idx, flags, all_latency_measurements, download_results,
                  upload_results, seqKept >>

SeqFullNext ==
  \/ GetIP \/ FullSeqEnd \/ FullSeqSkip
  \/ DoLatency \/ DoBandwidth \/ FullFinish

SeqNext == SeqStdNext \/ SeqFullNext \/ ReducedNext

SeqSpec == Init /\ [][SeqNext]_vars


(***************************************************************************)
(* One successful request: what measure_latency, measure_download_bandwidth *)
(* and measure_upload_bandwidth of src/cf_speedtest make of a response     *)
(* that is ok.  A time is a whole number of 1/100 ms (Ms is 1 ms); bps,    *)
(* bits / (duration_ms / 1000), is kept as the quotient of the bits over   *)
(* the duration, which is bps / 100000.                                    *)
(***************************************************************************)
Ms == 100

\* ESTIMATED_SERVER_TIME = 10  (ms)
ESTIMATED_SERVER_TIME == 10 * Ms

\* the values of the server-timing header tried: absent, three numbers
\* (one of them 0), no dur field, a dur field without digits, and a dur
\* field whose text is no number
ServerTimingHeaders ==
  {"", "cfRequestDuration;dur=12.5", "cfRequestDuration;dur=0",
   "cfRequestDuration;dur=3", "cfRequestDuration",
   "cfRequestDuration;dur=abc", "cfRequestDuration;dur=1.2.3"}

\* re.search(r'dur=([0-9.]+)', server_timing): the text of the group, ""
\* when the pattern does not match
DurField(h) ==
  CASE h = "cfRequestDuration;dur=12.5" -> "12.5"
    [] h = "cfRequestDuration;dur=0" -> "0"
    [] h = "cfRequestDuration;dur=3" -> "3"
    [] h = "cfRequestDuration;dur=1.2.3" -> "1.2.3"
    [] OTHER -> ""

\* float(match.group(1)): ValueError for a text that is no number
DurRaises(t) == t = "1.2.3"
DurValue(t) ==
  CASE t = "12.5" -> 12 * Ms + Ms \div 2
    [] t = "3" -> 3 * Ms
    [] OTHER -> 0

\* get_server_time(response): a number, None, or the ValueError of float()
get_server_time(h) ==
  IF h # "" /\ DurField(h) # ""
  THEN [raised |-> DurRaises(DurField(h)), none |-> FALSE,
        value |-> DurValue(DurField(h))]
  ELSE [raised |-> FALSE, none |-> TRUE, value |-> 0]

\* get_server_time(response) or ESTIMATED_SERVER_TIME: None and 0.0 are
\* both false
ServerTime(h) ==
  IF get_server_time(h).none \/ get_server_time(h).value = 0
  THEN ESTIMATED_SERVER_TIME
  ELSE get_server_time(h).value

\* (variant for C34: the difference is not clamped)
Ping_Unclamped(ttfb, server_time) == ttfb - server_time

\* ping_ms = max(0.01, ttfb_ms - server_time)
Ping(ttfb, server_time) == Max(1, ttfb - server_time)

\* int(current_size * (1 + ESTIMATED_HEADER_FRACTION)): the double 1.005 is
\* below 1.005, so for a size whose exact product is a whole number the
\* float product falls just short of it and int() gives one less (100499
\* for 100000); this holds for every size requested here
EstimatedSize(n) == n + (n * 5 - 1) \div 1000

\* bits = 8 * (transfer_size if transfer_size > 0 else int(...))
DownloadBits(transfer_size, n) ==
  8 * (IF transfer_size > 0 THEN transfer_size ELSE EstimatedSize(n))

\* bits = 8 * current_size * (1 + ESTIMATED_HEADER_FRACTION), up to the
\* rounding of the float product
UploadBits(n) == 8 * n + (8 * n * 5) \div 1000

\* bps = bits / (duration_ms / 1000) if duration_ms > 0 else 0
Bps(bits, duration) == IF duration > 0 THEN Over(bits, duration)
                       ELSE Over(0, 1)

\* the sizes a request of a call with bytes_size b can have: b after 0 to
\* MAX_RETRIES shrinks
RECURSIVE ShrunkTimes(_, _)
ShrunkTimes(b, k) ==
  IF k = 0 THEN b
  ELSE IF CanShrink(ShrunkTimes(b, k - 1))
       THEN NextSize(ShrunkTimes(b, k - 1))
       ELSE ShrunkTimes(b, k - 1)
Shrinks(b) == {ShrunkTimes(b, k) : k \in 0..MAX_RETRIES}

\* the times to the first byte and the times from there to the last byte
ElapsedTimes == {0, Ms \div 2, 10 * Ms, 20 * Ms}
PayloadTimes == {0, Ms \div 2, 500 * Ms}
\* the lengths of the body of a download of n bytes: empty, cut short, as
\* requested, and with more than the 0.5 % of the header estimate on top
Bodies(n) == {0, n \div 2, n, n + n \div 100}

\* the sizes of the phase table for a kind of measurement
TableSizes(t) ==
  {measurements[p].bytes : p \in {q \in PhaseIds : measurements[q].mtype = t}}

ProbeKinds == {"latency", "download", "upload"}

\* the responses a request of n bytes of a kind can be answered with
Responses(t, n) ==
  {[requested |-> n, server_timing |-> h, elapsed |-> e, payload |-> q,
    transfer_size |-> b] :
     h \in ServerTimingHeaders, e \in ElapsedTimes,
     q \in IF t = "download" THEN PayloadTimes ELSE {0},
     b \in IF t = "download" THEN Bodies(n) ELSE {0}}

ProbeInit ==
  /\ impl = "std"
  /\ pc \in ProbeKinds
  /\ measurement_sizes = << >>
  /\ Fresh
  /\ percentile_val = DefaultPercentile
  /\ bandwidth_percentile = Normalised(percentile_val)
  /\ values = << >>
  /\ pct = 0
  /\ bytes_size \in TableSizes(pc)
  /\ count = 1
  /\ response \in UNION {Responses(pc, n) : n \in Shrinks(bytes_size)}
  /\ result = NoResult
  /\ down = NoCall
  /\ up = NoCall
  /\ timings = << >>
  /\ history = << >>

\* what no step of a probe touches
probeKept ==
  << impl, idx, i, ctl, phaseVars, flags, executed, attempts, attemptObs,
     outcome, latencies, acc, failed, returned, measurement_sizes, pctVars,
     callVars, dataVars, response, eqVars, winVars >>

\* measure_latency, if response.ok: the sample, or the ValueError of
\* get_server_time, which "except Exception: continue" swallows
LatencySample ==
  /\ pc = "latency" /\ response # NoResponse
  /\ IF get_server_time(response.server_timing).raised
     THEN pc' = "dropped" /\ result' = NoResult
     ELSE /\ pc' = "appended"
          /\ result' =
               [kind |-> "latency",
                server_time |-> ServerTime(response.server_timing),
                ping |-> Ping(response.elapsed,
                              ServerTime(response.server_timing))]
  /\ UNCHANGED probeKept

\* measure_download_bandwidth, from response.elapsed to results.append; a
\* ValueError of get_server_time is answered by errors += 1 and break
DownloadSample ==
  /\ pc = "download" /\ response # NoResponse
  /\ IF get_server_time(response.server_timing).raised
     THEN pc' = "dropped" /\ result' = NoResult
     ELSE LET server_time == ServerTime(response.server_timing)
              payload_download_time == Max(Ms, response.payload)
              ping == Ping(response.elapsed, server_time)
              download_duration == ping + payload_download_time
              bits == DownloadBits(response.transfer_size,
                                   response.requested)
          IN /\ pc' = "appended"
             /\ result' =
                  [kind |-> "download", server_time |-> server_time,
                   bytes |-> response.requested, bits |-> bits,
                   bps |-> Bps(bits, download_duration),
                   duration |-> download_duration, ping |-> ping]
  /\ UNCHANGED probeKept

\* measure_upload_bandwidth, from response.content to results.append
UploadSample ==
  /\ pc = "upload" /\ response # NoResponse
  /\ IF get_server_time(response.server_timing).raised
     THEN pc' = "dropped" /\ result' = NoResult
     ELSE LET server_time == ServerTime(response.server_timing)
              upload_duration == Max(Ms, response.elapsed)
              bits == UploadBits(response.requested)
              ping == Ping(response.elapsed, server_time)
          IN /\ pc' = "appended"
             /\ result' =
                  [kind |-> "upload", server_time |-> server_time,
                   bytes |-> response.requested, bits |-> bits,
                   bps |-> Bps(bits, upload_duration),
                   duration |-> upload_duration, ping |-> ping]
  /\ UNCHANGED probeKept

ProbeNext == LatencySample \/ DownloadSample \/ UploadSample

ProbeSpec == ProbeInit /\ [][ProbeNext]_vars

(***************************************************************************)
(* The two retry controllers side by side.  measure_download_bandwidth and *)
(* measure_upload_bandwidth are called with the same bytes_size and count  *)
(* and every request of the one is answered as the request of the other.   *)
(* Each function is translated from its own lines; down and up hold their  *)
(* locals and, for the attempt that is running, what it requested and      *)
(* slept, and for the call the way each attempt ended.                     *)
(***************************************************************************)
\* REQUEST_DELAY = 0.1  (s; sleeps are kept in ms)
REQUEST_DELAY == 100

\* the answers to a request: a 429 with each Retry-After header, the other
\* statuses, and the transport exception
Answers ==
  {[status |-> "429", retry_after |-> h] : h \in RetryAfterHeaders}
    \cup {[status |-> st, retry_after |-> ""] :
            st \in {"403", OtherStatus, "200", NoAnswer}}
\* a step that makes no request reads no answer
NoRequest == [status |-> NoStatus, retry_after |-> ""]

\* the function has been called: errors = 0, results = []
Called ==
  [pc |-> "for", i |-> 0, current_size |-> 0, retry_count |-> 0,
   measurement_success |-> FALSE, errors |-> 0, results |-> 0,
   sizes |-> << >>, retry_counts |-> << >>, sleeps |-> << >>,
   outcomes |-> << >>]

\* ---- measure_download_bandwidth ----
\* for i in range(count): if i > 0: time.sleep(REQUEST_DELAY);
\* current_size = bytes_size; retry_count = 0; measurement_success = False
DownloadForNext(s) ==
  [s EXCEPT !.pc = "loop", !.current_size = bytes_size, !.retry_count = 0,
            !.measurement_success = FALSE,
            !.sizes = << >>, !.retry_counts = << >>,
            !.sleeps = IF s.i > 0 THEN << REQUEST_DELAY >> ELSE << >>]

\* errors += 1; break
DownloadBreak(s) ==
  [s EXCEPT !.errors = @ + 1, !.outcomes = Append(@, "Failed"),
            !.i = @ + 1, !.pc = "for"]

\* except RateLimitError as e
DownloadRateLimitError(s) ==
  IF GivesUp(s.retry_count, s.current_size)
  THEN DownloadBreak(s)
  ELSE [s EXCEPT !.retry_count = @ + 1, !.sleeps = Append(@, 100)]

\* if response.status_code == 429
Download429(s, h) ==
  IF RetryAfterRaises(h)
  THEN DownloadBreak(s)
  ELSE IF CanShrink(s.current_size) /\ NextSize(s.current_size) < s.current_size
  THEN [s EXCEPT !.current_size = NextSize(s.current_size),
                 !.sleeps = Append(@, 100), !.retry_count = @ + 1]
  ELSE IF CanBackoff(s.retry_count)
  THEN [s EXCEPT !.sleeps = Append(@, WaitTime(h, s.retry_count)),
                 !.retry_count = @ + 1]
  ELSE DownloadRateLimitError(s)

\* one pass of the while loop: requests.get and the handling of its answer
DownloadPass(s, a) ==
  LET r == [s EXCEPT !.sizes = Append(@, s.current_size),
                     !.retry_counts = Append(@, s.retry_count)]
  IN CASE a.status = NoAnswer -> DownloadBreak(r)
       [] a.status = "429" -> Download429(r, a.retry_after)
       [] a.status = "403" -> DownloadRateLimitError(r)
       [] a.status = "200" ->
            [r EXCEPT !.results = @ + 1, !.measurement_success = TRUE]
       [] OTHER -> DownloadRateLimitError(r)

\* the while condition is false: the for loop goes on
DownloadWhileExit(s) ==
  [s EXCEPT !.outcomes = Append(@, IF s.measurement_success THEN "success"
                                   ELSE "exhausted"),
            !.i = @ + 1, !.pc = "for"]

\* the step of measure_download_bandwidth at its position
DownloadStep(s, a) ==
  CASE s.pc = "for" /\ s.i < count -> DownloadForNext(s)
    [] s.pc = "for" /\ s.i >= count -> [s EXCEPT !.pc = "returned"]
    [] s.pc = "loop" /\ WhileCond(s.retry_count, s.measurement_success) ->
         DownloadPass(s, a)
    [] s.pc = "loop" /\ ~WhileCond(s.retry_count, s.measurement_success) ->
         DownloadWhileExit(s)
    [] OTHER -> s

\* ---- measure_upload_bandwidth ----
\* for i in range(count): if i > 0: time.sleep(REQUEST_DELAY);
\* current_size = bytes_size; retry_count = 0; measurement_success = False
UploadForNext(s) ==
  [s EXCEPT !.pc = "loop", !.current_size = bytes_size, !.retry_count = 0,
            !.measurement_success = FALSE,
            !.sizes = << >>, !.retry_counts = << >>,
            !.sleeps = IF s.i > 0 THEN << REQUEST_DELAY >> ELSE << >>]

\* errors += 1; break
UploadBreak(s) ==
  [s EXCEPT !.errors = @ + 1, !.outcomes = Append(@, "Failed"),
            !.i = @ + 1, !.pc = "for"]

\* except RateLimitError as e:
\* if retry_count >= MAX_RETRIES or current_size <= MIN_BYTES_PER_REQ
UploadRateLimitError(s) ==
  IF s.retry_count >= MAX_RETRIES \/ s.current_size <= MIN_BYTES_PER_REQ
  THEN UploadBreak(s)
  ELSE [s EXCEPT !.retry_count = @ + 1, !.sleeps = Append(@, 100)]

\* retry_after = float(retry_after_str) if retry_after_str
\*               else DEFAULT_RETRY_DELAY
UploadRetryAfter(h) == IF h # "" THEN FloatOf(h) ELSE DEFAULT_RETRY_DELAY

\* (variant for C38: the wait does not grow with the retry count)
Upload429_FlatBackoff(s, h) ==
  IF h # "" /\ ~IsFloat(h)
  THEN UploadBreak(s)
  ELSE IF s.current_size > MIN_BYTES_PER_REQ
          /\ Max(MIN_BYTES_PER_REQ, s.current_size \div 2) < s.current_size
  THEN [s EXCEPT !.current_size = Max(MIN_BYTES_PER_REQ, @ \div 2),
                 !.sleeps = Append(@, 100), !.retry_count = @ + 1]
  ELSE IF s.retry_count < MAX_RETRIES
  THEN [s EXCEPT !.sleeps = Append(@, UploadRetryAfter(h) * 1000),
                 !.retry_count = @ + 1]
  ELSE UploadRateLimitError(s)

\* if response.status_code == 429
Upload429(s, h) ==
  IF h # "" /\ ~IsFloat(h)
  THEN UploadBreak(s)
  ELSE IF s.current_size > MIN_BYTES_PER_REQ
          /\ Max(MIN_BYTES_PER_REQ, s.current_size \div 2) < s.current_size
  THEN [s EXCEPT !.current_size = Max(MIN_BYTES_PER_REQ, @ \div 2),
                 !.sleeps = Append(@, 100), !.retry_count = @ + 1]
  ELSE IF s.retry_count < MAX_RETRIES
  THEN [s EXCEPT !.sleeps =
                   Append(@, UploadRetryAfter(h) * Pow2(s.retry_count) * 1000),
                 !.retry_count = @ + 1]
  ELSE UploadRateLimitError(s)

\* one pass of the while loop: requests.post and the handling of its answer
UploadPass(s, a) ==
  LET r == [s EXCEPT !.sizes = Append(@, s.current_size),
                     !.retry_counts = Append(@, s.retry_count)]
  IN CASE a.status = NoAnswer -> UploadBreak(r)
       [] a.status = "429" -> Upload429(r, a.retry_after)
       [] a.status = "403" -> UploadRateLimitError(r)
       [] a.status = "200" ->
            [r EXCEPT !.results = @ + 1, !.measurement_success = TRUE]
       [] OTHER -> UploadRateLimitError(r)

\* the while condition is false: the for loop goes on
UploadWhileExit(s) ==
  [s EXCEPT !.outcomes = Append(@, IF s.measurement_success THEN "success"
                                   ELSE "exhausted"),
            !.i = @ + 1, !.pc = "for"]

\* the step of measure_upload_bandwidth at its position
UploadStep(s, a) ==
  CASE s.pc = "for" /\ s.i < count -> UploadForNext(s)
    [] s.pc = "for" /\ s.i >= count -> [s EXCEPT !.pc = "returned"]
    [] s.pc = "loop" /\ s.retry_count <= MAX_RETRIES
                     /\ ~s.measurement_success -> UploadPass(s, a)
    [] s.pc = "loop" /\ ~(s.retry_count <= MAX_RETRIES
                          /\ ~s.measurement_success) -> UploadWhileExit(s)
    [] OTHER -> s

\* ---- the two calls ----
EqInit ==
  /\ impl = "std"
  /\ pc = "paired"
  /\ measurement_sizes = << >>
  /\ Fresh
  /\ percentile_val = DefaultPercentile
  /\ bandwidth_percentile = Normalised(percentile_val)
  /\ values = << >>
  /\ pct = 0
  /\ bytes_size \in CallSizes
  /\ count \in 1..MaxCount
  /\ response = NoResponse
  /\ result = NoResult
  /\ down = Called
  /\ up = Called
  /\ timings = << >>
  /\ history = << >>

\* what the two calls leave alone
eqKept ==
  << impl, pc, idx, i, ctl, phaseVars, flags, executed, attempts, attemptObs,
     outcome, latencies, acc, failed, returned, measurement_sizes, pctVars,
     callVars, dataVars, probeVars, winVars >>

\* both functions take their next step, given the same answer
Paired(a) ==
  /\ down' = DownloadStep(down, a)
  /\ up' = UploadStep(up, a)
  /\ UNCHANGED eqKept

\* both begin their next attempt
PairedForNext ==
  /\ pc = "paired" /\ down.pc = "for" /\ down.i < count
  /\ Paired(NoRequest)

\* both make a request, answered the same
PairedRequest ==
  /\ pc = "paired" /\ down.pc = "loop"
  /\ WhileCond(down.retry_count, down.measurement_success)
  /\ \E a \in Answers : Paired(a)

\* both leave the while loop
PairedWhileExit ==
  /\ pc = "paired" /\ down.pc = "loop"
  /\ ~WhileCond(down.retry_count, down.measurement_success)
  /\ Paired(NoRequest)

\* both return
PairedReturn ==
  /\ pc = "paired" /\ down.pc = "for" /\ down.i >= count
  /\ Paired(NoRequest)

EqNext == PairedForNext \/ PairedRequest \/ PairedWhileExit \/ PairedReturn

EqSpec == EqInit /\ [][EqNext]_vars

(***************************************************************************)
(* The window of _run_full.  down and up of _run_full map a byte size to   *)
(* the list of points stored for it; do_download and do_upload touch only  *)
(* the list of the size they request.  A run is followed through the phase *)
(* table with the list of one size and direction in view: the list of the  *)
(* first bandwidth phase that is entered (executed holds the phases        *)
(* entered).  A point is its duration together with the phase that         *)
(* appended it and its number among the points appended to the list.       *)
(***************************************************************************)
\* the durations of the probes followed: below the 10 ms of the filter and
\* above the finish threshold
WindowDurations == {5, 1500}

Bandwidth(m) == m.mtype \in {"download", "upload"}

\* the phase requests the size whose list is in view, in its direction
SameList(m) ==
  /\ executed # << >>
  /\ m.mtype = MEASUREMENTS[executed[1]].mtype
  /\ m.bytes = MEASUREMENTS[executed[1]].bytes

\* (variant for C40: the list is never cut)
Trimmed_Untrimmed(list, n) == list

\* down[bytes_req][-count:]
Trimmed(list, n) == IF Len(list) > n THEN Last(list, n) ELSE list

\* [p["bps"] for p in all_points(down) if p["duration"] >= 10 and p["bps"]],
\* as far as it comes from the list in view (bps is never 0)
InputOf(list) ==
  {list[j] : j \in {k \in 1..Len(list) : FullValid(list[k].duration)}}

WinInit ==
  /\ impl = "full"
  /\ pc = "seq"
  /\ measurement_sizes = << >>
  /\ Fresh
  /\ percentile_val = DefaultPercentile
  /\ bandwidth_percentile = Normalised(percentile_val)
  /\ values = << >>
  /\ pct = 0
  /\ bytes_size = 0
  /\ count = 0
  /\ response = NoResponse
  /\ result = NoResult
  /\ down = NoCall
  /\ up = NoCall
  /\ timings = << >>
  /\ history = << >>

\* what no step of the followed run touches
winKept ==
  << impl, ctl, results, attempts, attemptObs, latencies, acc, failed,
     returned, measurement_sizes, pctVars, callVars,
     all_latency_measurements, download_results, upload_results,
     latency_measurements, probeVars, eqVars >>

\* for m in MEASUREMENTS: a phase that leaves the list in view alone.  It is
\* skipped, or it is a latency phase or a phase of another list: a request
\* of it is answered by an error status and the HTTPError ends the run, or
\* it returns, a bandwidth phase that does not bypass the check with its
\* finished flag set or not
WinPass ==
  /\ impl = "full" /\ pc = "seq" /\ idx <= NPhases
  /\ IF FullSkipped(FullPhase, download_finished, upload_finished)
     THEN idx' = idx + 1 /\ UNCHANGED << pc, outcome, flags >>
     ELSE /\ ~SameList(FullPhase)
          /\ \/ Raise /\ UNCHANGED << idx, flags >>
             \/ /\ idx' = idx + 1
                /\ \E fin \in {f \in BOOLEAN :
                                 f => (Bandwidth(FullPhase)
                                       /\ ~FullPhase.bypass)} :
                      /\ download_finished' =
                           (download_finished
                              \/ (fin /\ FullPhase.mtype = "download"))
                      /\ upload_finished' =
                           (upload_finished
                              \/ (fin /\ FullPhase.mtype = "upload"))
                /\ UNCHANGED << pc, outcome >>
  /\ UNCHANGED << i, min_duration, executed, dl_pts, ul_pts, winVars,
                  winKept >>

\* do_download(m["bytes"], m["count"], ...) / do_upload(...) for the list in
\* view: min_dur = float("inf")
WinEnter ==
  /\ impl = "full" /\ pc = "seq" /\ idx <= NPhases
  /\ Bandwidth(FullPhase)
  /\ ~FullSkipped(FullPhase, download_finished, upload_finished)
  /\ executed = << >> \/ SameList(FullPhase)
  /\ executed' = Append(executed, idx)
  /\ i' = 0
  /\ min_duration' = Inf
  /\ pc' = "probe"
  /\ UNCHANGED << idx, flags, outcome, dl_pts, ul_pts, winVars, winKept >>

\* one pass of for _ in range(count): the point is appended and the list
\* cut to its last count points; or the probe fails and is logged; or it
\* is answered by an error status and the HTTPError ends the run
WinProbe ==
  /\ impl = "full" /\ pc = "probe" /\ i < FullPhase.count
  /\ \/ \E d \in WindowDurations :
          LET p == [phase |-> idx, number |-> Len(history) + 1,
                    duration |-> d]
          IN /\ timings' = Trimmed(Append(timings, p), FullPhase.count)
             /\ history' = Append(history, p)
             /\ min_duration' = Min(min_duration, d)
             /\ i' = i + 1
             /\ UNCHANGED << pc, outcome >>
     \/ /\ i' = i + 1
        /\ UNCHANGED << pc, outcome, min_duration, winVars >>
     \/ Raise /\ UNCHANGED << i, min_duration, winVars >>
  /\ UNCHANGED << idx, flags, executed, dl_pts, ul_pts, winKept >>

\* if not bypass and min_dur > BANDWIDTH_FINISH_REQUEST_DURATION_MS
WinReturn ==
  /\ impl = "full" /\ pc = "probe" /\ i = FullPhase.count
  /\ download_finished' =
       IF FullPhase.mtype = "download"
          /\ FullEarlyStop(FullPhase.bypass, min_duration)
       THEN TRUE ELSE download_finished
  /\ upload_finished' =
       IF FullPhase.mtype = "upload"
          /\ FullEarlyStop(FullPhase.bypass, min_duration)
       THEN TRUE ELSE upload_finished
  /\ idx' = idx + 1
  /\ pc' = "seq"
  /\ UNCHANGED << i, min_duration, executed, outcome, dl_pts, ul_pts,
                  winVars, winKept >>

\* dl_pts / ul_pts of the final computation, as far as they come from the
\* list in view
WinFinish ==
  /\ impl = "full" /\ pc = "seq" /\ idx > NPhases
  /\ pc' = "done"
  /\ outcome' = "assembled"
  /\ dl_pts' = IF executed # << >>
                  /\ MEASUREMENTS[executed[1]].mtype = "download"
               THEN InputOf(timings) ELSE {}
  /\ ul_pts' = IF executed # << >>
                  /\ MEASUREMENTS[executed[1]].mtype = "upload"
               THEN InputOf(timings) ELSE {}
  /\ UNCHANGED << idx, i, min_duration, flags, executed, winVars, winKept >>

WinNext == WinPass \/ WinEnter \/ WinProbe \/ WinReturn \/ WinFinish

WinSpec == WinInit /\ [][WinNext]_vars

(***************************************************************************)
(* Vocabulary of the properties                                            *)
(***************************************************************************)
Std == impl = "std"
\* the current step position is inside a bandwidth phase of the std run
InBandwidthPhase == Std /\ pc \in {"for", "loop"}
\* an attempt of the current phase has just ended
AttemptOver == Std /\ pc = "for" /\ i > 0
\* all attempts of the current phase are over: the function is about to return
PhaseOver == Std /\ pc = "for" /\ i = measurements[idx].count
Ran(p) == \E k \in DOMAIN executed : executed[k] = p
PhasesOf(t) == {p \in PhaseIds : measurements[p].mtype = t}
HasBackoff(sl) == \E k \in DOMAIN sl : sl[k] >= 1000
\* the minimum over the durations of a set of results exceeds t
AllAbove(r, t) == \A d \in Durations : r[d] > 0 => d > t

(***************************************************************************)
(* C1: the retry counter of a probe attempt never exceeds MAX_RETRIES (3). *)
(* Refuted by the code: a shrink at retry_count = 3 makes it 4.            *)
(***************************************************************************)
C1_RetryCountBounded == Std => retry_count <= MAX_RETRIES

(***************************************************************************)
(* C2: after an answer 403 or another non-2xx status different from 429    *)
(* the attempt issues no further request.  Refuted by the code: above the  *)
(* floor size and below the retry ceiling the request is repeated.         *)
(***************************************************************************)
C2_NoRequestAfter403 ==
  (Std /\ pc = "loop" /\ last_status \in {"403", OtherStatus})
     => ~WhileCond(retry_count, measurement_success)

(***************************************************************************)
(* C3: when the calibration phase (download, 100,000 bytes, count 1) ends  *)
(* without a result, the run is aborted: the next step raises and no later *)
(* phase runs.  Refuted by the code: the run goes on with phase 3.         *)
(***************************************************************************)
C3_CalibrationFailureAborts ==
  [][(PhaseOver /\ idx = 2 /\ NResults(results) = 0)
        => (pc' = "done" /\ outcome' = "raised")]_vars

(***************************************************************************)
(* C4: in run_standard_test a finished flag changes only when a phase of   *)
(* that direction returns after all its attempts, and it is set exactly    *)
(* when the phase is not bypass, has at least one result and every result  *)
(* of the phase lasted more than 1000 ms; a run whose download flag was    *)
(* never set has executed every download phase of the table completely.    *)
(***************************************************************************)
C4_SetCondition ==
  /\ ~measurements[idx].bypass
  /\ NResults(results) > 0
  /\ AllAbove(results, BANDWIDTH_FINISH_REQUEST_DURATION)

C4_Step ==
  Std =>
    /\ (download_finished' # download_finished) =>
          PhaseOver /\ measurements[idx].mtype = "download"
    /\ (upload_finished' # upload_finished) =>
          PhaseOver /\ measurements[idx].mtype = "upload"
    /\ (PhaseOver /\ measurements[idx].mtype = "download") =>
          (download_finished' <=> C4_SetCondition)
    /\ (PhaseOver /\ measurements[idx].mtype = "upload") =>
          (upload_finished' <=> C4_SetCondition)

C4_AllPhasesRun ==
  (Std /\ pc = "done" /\ ~download_finished) =>
     \A p \in PhasesOf("download") :
        Ran(p) /\ attempts[p] = measurements[p].count

C4_FinishedFlag == [][C4_Step]_vars /\ []C4_AllPhasesRun

C4_Witness ==
  Std /\ pc = "seq" /\ idx = 5 /\ download_finished /\ ~upload_finished


(***************************************************************************)
(* C5: in every sequencer a finished flag, once set, is never reset, and   *)
(* no attempt of a phase of a finished direction is started; a latency     *)
(* phase is never skipped.  As stated ("the two latency phases are         *)
(* executed in every run") the property fails for _run_full, where a       *)
(* re-raised HTTPError ends the run at the failing request; it holds for   *)
(* every run that leaves the loop over the table normally.                 *)
(***************************************************************************)
Table == IF impl = "std" THEN measurements ELSE MEASUREMENTS

FinishedDir(p) ==
  \/ Table[p].mtype = "download" /\ download_finished
  \/ Table[p].mtype = "upload" /\ upload_finished

C5_Step ==
  /\ download_finished => download_finished'
  /\ upload_finished => upload_finished'
  /\ \A p \in PhaseIds : attempts'[p] # attempts[p] => ~FinishedDir(p)
  /\ (pc = "loop" /\ sizes' # sizes) => ~FinishedDir(idx)
  /\ (pc = "seq" /\ idx <= NPhases /\ Table[idx].mtype = "latency")
        => executed' = Append(executed, idx)

C5_LatencyPhasesRan ==
  \A p \in PhasesOf("latency") : Ran(p) /\ attempts[p] = Table[p].count

C5_LatencyInEveryRun == pc = "done" => C5_LatencyPhasesRan

C5_LatencyInCompletedRun ==
  (pc = "done" /\ outcome = "assembled") => C5_LatencyPhasesRan

\* the claim as stated
C5_Original == [][C5_Step]_vars /\ []C5_LatencyInEveryRun

\* the claim as amended
C5_FinishedIsFinal == [][C5_Step]_vars /\ []C5_LatencyInCompletedRun

C5_Witness ==
  /\ impl = "full" /\ pc = "done" /\ outcome = "assembled"
  /\ download_finished /\ upload_finished
  /\ Ran(4) /\ ~Ran(5) /\ Ran(6) /\ ~Ran(7)
  /\ attempts[1] = 1 /\ attempts[3] = 20

(***************************************************************************)
(* C6: early stop is per direction in run_standard_test.  A download phase *)
(* never changes upload_finished, an upload phase never changes            *)
(* download_finished, and an upload phase is skipped only by               *)
(* upload_finished; when the first non-bypass download phase (phase 4)     *)
(* sets download_finished, no later download phase runs, both latency      *)
(* phases run, and every upload phase runs as long as upload_finished is   *)
(* not set by an upload phase itself.                                      *)
(***************************************************************************)
C6_Step ==
  Std =>
    /\ (InBandwidthPhase /\ measurements[idx].mtype = "download")
          => upload_finished' = upload_finished
    /\ (InBandwidthPhase /\ measurements[idx].mtype = "upload")
          => download_finished' = download_finished
    /\ (pc = "seq" /\ idx <= NPhases /\ measurements[idx].mtype = "upload"
          /\ ~upload_finished)
          => executed' = Append(executed, idx)

C6_Scenario ==
  (Std /\ pc = "done" /\ Ran(4) /\ ~Ran(5)) =>
    /\ download_finished
    /\ \A p \in PhasesOf("download") : p > 4 => ~Ran(p) /\ attempts[p] = 0
    /\ \A p \in PhasesOf("latency") :
          Ran(p) /\ attempts[p] = measurements[p].count
    /\ Ran(6) /\ attempts[6] = measurements[6].count
    /\ ~upload_finished =>
          \A p \in PhasesOf("upload") :
             Ran(p) /\ attempts[p] = measurements[p].count

C7_Inv ==
  Std =>
    /\ outcome # "raised"
    /\ \A k \in 1..(Len(executed) - 1) : executed[k] < executed[k + 1]
    /\ \A p \in PhaseIds :
          /\ p < idx => attempts[p] = IF Ran(p) THEN measurements[p].count
                                       ELSE 0
          /\ p > idx => ~Ran(p) /\ attempts[p] = 0
          /\ p = idx => attempts[p] <= measurements[p].count

C7_Step ==
  Std =>
    /\ idx' >= idx
    /\ \A p \in PhaseIds :
          attempts'[p] # attempts[p] =>
             p = idx /\ Ran(p) /\ attempts'[p] = attempts[p] + 1
    /\ (pc = "seq" /\ idx <= NPhases /\ idx' = idx + 1) => FinishedDir(idx)
    /\ (AttemptOver /\ i < measurements[idx].count)
          => (pc' = "loop" /\ attempts'[idx] = attempts[idx] + 1)

C7_InOrderAndComplete == []C7_Inv /\ [][C7_Step]_vars

C7_Witness ==
  /\ Std /\ pc = "for" /\ idx = NPhases /\ Len(executed) = NPhases
  /\ i = 2 /\ counted /\ NResults(results) = 0 /\ attempts[idx] = 2

(***************************************************************************)
(* C8: in measure_download_bandwidth / measure_upload_bandwidth a failed   *)
(* attempt contributes no result: an attempt appends at most one result,   *)
(* and only when its last request was answered with a success status; the  *)
(* results of a phase never outnumber its attempts, hence never count.     *)
(***************************************************************************)
C8_Inv ==
  InBandwidthPhase =>
    /\ appended <= 1
    /\ appended = 1 => (last_status = "200" /\ ~counted)
    /\ (AttemptOver /\ (counted \/ last_status # "200")) => appended = 0
    /\ NResults(results) <= attempts[idx]
    /\ attempts[idx] <= measurements[idx].count
    /\ NResults(results) <= measurements[idx].count

C8_Step ==
  (Std /\ pc = "loop") =>
     NResults(results') = NResults(results) + (appended' - appended)

C8_NoResultFromFailure == []C8_Inv /\ [][C8_Step]_vars

C8_Witness ==
  /\ PhaseOver /\ idx = 5 /\ counted
  /\ NResults(results) > 0 /\ NResults(results) < i

(***************************************************************************)
(* C9: for the sizes of the table, the sizes requested by one attempt are  *)
(* non-increasing and at least 100,000 bytes, and so is current_size.      *)
(***************************************************************************)
C9_SizesShrinkToFloor ==
  InBandwidthPhase =>
    /\ \A k \in DOMAIN sizes :
          /\ sizes[k] >= MIN_BYTES_PER_REQ
          /\ k > 1 => sizes[k] <= sizes[k - 1]
    /\ Len(sizes) > 0 =>
          /\ sizes[1] = measurements[idx].bytes
          /\ current_size <= sizes[Len(sizes)]
    /\ pc = "loop" => current_size >= MIN_BYTES_PER_REQ

C9_Witness ==
  /\ Std /\ pc = "loop"
  /\ sizes = << 1000000, 500000, 250000, 125000 >>
  /\ current_size = MIN_BYTES_PER_REQ

(***************************************************************************)
(* C10: an attempt of initial size 1,000,000 that is answered 429 every    *)
(* time requests 1,000,000, 500,000, 250,000, 125,000, then stays at the   *)
(* 100,000 floor with backoff sleeps, and ends Failed without a sample.    *)
(* Refuted by the code: the shrink to the floor is the fourth increment    *)
(* of retry_count, so the attempt ends with no request at the floor and    *)
(* no backoff sleep.                                                       *)
(***************************************************************************)
C10_Sizes == << 1000000, 500000, 250000, 125000, 100000, 100000, 100000 >>

C10_All429From1M ==
  (InBandwidthPhase /\ measurements[idx].bytes = 1000000 /\ only429
     /\ Len(sizes) > 0) =>
    /\ Len(sizes) <= Len(C10_Sizes)
    /\ \A k \in DOMAIN sizes : sizes[k] = C10_Sizes[k]
    /\ appended = 0
    /\ (AttemptOver /\ last_status = "429"
          /\ current_size = MIN_BYTES_PER_REQ) => HasBackoff(sleeps)

(***************************************************************************)
(* C11: a 429 received when the retry count equals MAX_RETRIES (3) ends    *)
(* the attempt as Failed with the rate-limit error counted, whatever the   *)
(* current size.  Refuted by the code: above the floor size the 429 is     *)
(* answered by one more shrink (the count becomes 4), the loop then ends   *)
(* without a RateLimitError and without errors += 1.                       *)
(***************************************************************************)
C11_Exhausted429Fails ==
  [][(Std /\ pc = "loop" /\ retry_count = MAX_RETRIES
        /\ sizes' # sizes /\ last_status' = "429")
       => (pc' = "for" /\ counted')]_vars

(***************************************************************************)
(* C12: a transport exception on a request of a probe attempt (at any      *)
(* retry count, before or while the body is read) ends the attempt as      *)
(* Failed: it is counted, no further request of the attempt is issued, no  *)
(* result is appended, and the phase goes on with its next attempt.        *)
(***************************************************************************)
C12_Inv ==
  (AttemptOver /\ last_status = NoAnswer) => (counted /\ appended = 0)

C12_Step ==
  Std =>
    /\ (pc = "loop" /\ sizes' # sizes /\ last_status' = NoAnswer)
          => /\ pc' = "for" /\ i' = i + 1 /\ idx' = idx
             /\ counted' /\ appended' = 0 /\ results' = results
    /\ (AttemptOver /\ last_status = NoAnswer)
          => IF i < measurements[idx].count
             THEN /\ pc' = "loop" /\ idx' = idx
                  /\ attempts'[idx] = attempts[idx] + 1
                  /\ sizes' = << >>
             ELSE pc' = "seq" /\ idx' = idx + 1 /\ outcome' = "running"

C12_TransportExceptionDrops == []C12_Inv /\ [][C12_Step]_vars

C12_Witness ==
  /\ AttemptOver /\ idx = 5 /\ i = 1 /\ last_status = NoAnswer
  /\ sizes = << 1000000, 500000, 250000 >> /\ retry_count = 2

(***************************************************************************)
(* C13: in run_standard_test, with at least one latency sample, the run    *)
(* returns a report exactly when both directions have a result of at least *)
(* 10 ms; otherwise it fails with the error naming a direction without     *)
(* one (download when download has none, upload when only upload has       *)
(* none).  Results below 10 ms never count: the accumulator of a direction *)
(* becomes non-empty only when a phase of that direction returns a result  *)
(* of at least 10 ms.                                                      *)
(***************************************************************************)
\* the list a phase returns holds a result that lasted 10 ms or more
HasQualifying(r) == \E d \in Durations : d >= 10 /\ r[d] > 0

RunOver == pc = "done" /\ outcome = "assembled"

C13_Inv ==
  (Std /\ RunOver /\ any_latency) =>
    /\ returned.kind \in {"report", "ValueError"}
    /\ returned.kind = "report" <=> (any_download /\ any_upload)
    /\ ~any_download => returned.names = "download"
    /\ (any_download /\ ~any_upload) => returned.names = "upload"

C13_Step ==
  Std =>
    /\ any_download' =
         (any_download \/ (PhaseOver /\ measurements[idx].mtype = "download"
                             /\ HasQualifying(results)))
    /\ any_upload' =
         (any_upload \/ (PhaseOver /\ measurements[idx].mtype = "upload"
                           /\ HasQualifying(results)))

C13_FailsWithoutQualifying == []C13_Inv /\ [][C13_Step]_vars

\* the run fails for download although the probes of its last download
\* phase succeeded (in 5 ms each)
C13_Witness ==
  /\ Std /\ RunOver /\ any_latency /\ any_upload
  /\ returned.kind = "ValueError" /\ returned.names = "download"
  /\ executed[Len(executed)] = NPhases /\ results[5] = 2

(***************************************************************************)
(* C14: _run_full and _run_reduced never return a report holding a         *)
(* placeholder: a report has no download_speed, upload_speed or ping_ms of *)
(* 0.  Refuted by the code: an empty list of points yields 0.0 in the      *)
(* report.                                                                 *)
(***************************************************************************)
C14_NoPlaceholder ==
  (impl \in {"full", "reduced"} /\ returned.kind = "report") =>
    /\ returned.download_speed # "0.0"
    /\ returned.upload_speed # "0.0"
    /\ returned.ping_ms # "0.0"

(***************************************************************************)
(* C15: when run_standard_test fails for a direction and the last phase of *)
(* that direction returned no result at all (every one of its attempts     *)
(* Failed), the failure carries failed sizes.  Refuted by the code: the    *)
(* failed-sizes lists are appended to only where a RateLimitError reaches  *)
(* run_standard_test, and none ever does.                                  *)
(***************************************************************************)
C15_FailureCarriesSizes ==
  (/\ Std /\ RunOver /\ returned.kind = "ValueError"
   /\ returned.names \in {"download", "upload"}
   /\ measurements[executed[Len(executed)]].mtype = returned.names
   /\ NResults(results) = 0)
    => returned.failed_sizes # << >>

(***************************************************************************)
(* C16: a failure of GET /getIP other than a 401 (another error status, a  *)
(* transport exception) is not fatal: the run goes on.  Refuted by the     *)
(* code: _fetch turns every error status into an HTTPError                 *)
(* (raise_for_status) and _get_ip re-raises every HTTPError.               *)
(***************************************************************************)
AtGetIP ==
  \/ impl = "full" /\ pc = "getip"
  \/ impl = "reduced" /\ pc = "rdown" /\ idx > Len(measurement_sizes)

C16_OnlyUnauthorizedIsFatal ==
  [][(AtGetIP /\ last_status' # "401") => outcome' # "raised"]_vars

(***************************************************************************)
(* C17: in _run_full and _run_reduced a 401 answer to any request (getIP,  *)
(* latency probe, download probe, upload probe) is raised to the caller:   *)
(* the step that receives it ends the run without a report, and a run that *)
(* has ended takes no further step.                                        *)
(***************************************************************************)
Python == impl \in {"full", "reduced"}

C17_Step ==
  Python =>
    /\ (last_status' = "401" /\ vars' # vars)
          => (pc' = "done" /\ outcome' = "raised" /\ returned' = NoReturn)
    /\ pc = "done" => vars' = vars

C17_Inv ==
  (Python /\ outcome = "raised") => (pc = "done" /\ returned = NoReturn)

C17_UnauthorizedIsRaised == []C17_Inv /\ [][C17_Step]_vars

\* a 401 on the fourth upload probe of the first upload phase
C17_Witness ==
  /\ impl = "full" /\ outcome = "raised" /\ last_status = "401"
  /\ idx = 6 /\ i = 3 /\ any_download /\ any_latency

(***************************************************************************)
(* C18: for every list and every p in [0,1], percentile(values, p) is the  *)
(* linear interpolation between the order statistics around the rank       *)
(* (n-1)*p: 0 for the empty list, the element at the rank when the rank is *)
(* whole, floor + (ceiling - floor) * fraction otherwise; it is 2.5 for    *)
(* [1,2,3,4] at 0.5, the maximum at 1.0, the minimum at 0.0, and every     *)
(* position read lies inside the list.                                     *)
(***************************************************************************)
Range(v) == {v[j] : j \in DOMAIN v}

\* the k-th smallest element of v, k counted from 0
Kth(v, k) ==
  CHOOSE x \in Range(v) :
     /\ Cardinality({j \in DOMAIN v : v[j] < x}) <= k
     /\ k < Cardinality({j \in DOMAIN v : v[j] <= x})

Reference(v, p) ==
  IF v = << >> THEN 0
  ELSE LET rank == (Len(v) - 1) * p
           lo == Kth(v, rank \div Unit)
           hi == Kth(v, Min(rank \div Unit + 1, Len(v) - 1))
       IN lo * Unit + (hi - lo) * (rank % Unit)

Largest(v) == CHOOSE x \in Range(v) : \A y \in Range(v) : y <= x
Smallest(v) == CHOOSE x \in Range(v) : \A y \in Range(v) : x <= y

C18_PercentileIsInterpolation ==
  (pc = "returned" /\ bandwidth_percentile <= Unit) =>
    /\ pct = Reference(values, bandwidth_percentile)
    /\ Indexed(values, bandwidth_percentile) \subseteq 0..(Len(values) - 1)
    /\ (values = << 1, 2, 3, 4 >> /\ 2 * bandwidth_percentile = Unit)
          => 2 * pct = 5 * Unit
    /\ (values # << >> /\ bandwidth_percentile = Unit)
          => pct = Largest(values) * Unit
    /\ (values # << >> /\ bandwidth_percentile = 0)
          => pct = Smallest(values) * Unit

\* an unsorted list whose median falls between two elements
C18_Witness ==
  /\ pc = "returned" /\ values = << 3, 1, 4, 2 >>
  /\ 2 * bandwidth_percentile = Unit /\ 2 * pct = 5 * Unit

(***************************************************************************)
(* C19: for every non-empty list, percentile(values, p) does not decrease  *)
(* when p grows from 0 to 1.                                               *)
(***************************************************************************)
Fractions == {q \in {Normalised(t) : t \in Targets} : q <= Unit}

C19_PercentileIsMonotone ==
  (pc = "returned" /\ values # << >> /\ bandwidth_percentile <= Unit) =>
    \A q \in Fractions :
       /\ q >= bandwidth_percentile => percentile(values, q) >= pct
       /\ q <= bandwidth_percentile => percentile(values, q) <= pct

\* an unsorted list and a fraction strictly between its extremes
C19_Witness ==
  /\ pc = "returned" /\ values = << 4, 1, 3 >>
  /\ 4 * bandwidth_percentile = Unit
  /\ pct > percentile(values, 0) /\ pct < percentile(values, Unit)

(***************************************************************************)
(* C20: for every target t on the 0-100 scale the rank fraction used is    *)
(* t/100, and a larger target never gets a smaller fraction than a smaller *)
(* target.  Refuted by the code: a target of at most 1 is taken as the     *)
(* fraction itself, so the target 1 selects the maximum (fraction 1.0)     *)
(* while the target 2 selects the fraction 0.02.                           *)
(***************************************************************************)
C20_TargetOverHundred ==
  pc \in {"percentile", "returned"} =>
    /\ bandwidth_percentile * HUNDRED = percentile_val
    /\ bandwidth_percentile <= Unit
    /\ \A t \in Targets :
          t >= percentile_val => Normalised(t) >= bandwidth_percentile

(***************************************************************************)
(* C25: whenever a 429 is received while the current size is strictly      *)
(* above 100,000 bytes, the size becomes max(100,000, size div 2), the     *)
(* retry count grows by one and the same attempt issues a further request  *)
(* at the new size, at every retry count at which the 429 can arrive.      *)
(* Refuted by the code: at retry_count = 3 the shrink makes the count 4    *)
(* and the while loop ends, so no request is made at the new size; and a   *)
(* 429 whose Retry-After header is not a number ends the attempt before    *)
(* the shrink branch is reached.                                           *)
(***************************************************************************)
C25_ShrinkThenRequest ==
  [][(Std /\ pc = "loop" /\ sizes' # sizes /\ last_status' = "429"
        /\ current_size > MIN_BYTES_PER_REQ)
       => /\ current_size' = Max(MIN_BYTES_PER_REQ, current_size \div 2)
          /\ retry_count' = retry_count + 1
          /\ pc' = "loop"
          /\ WhileCond(retry_count', measurement_success')]_vars

(***************************************************************************)
(* C27: a 429 received at the floor size with retry count r < 3 is         *)
(* answered by a sleep of hint * 2^r seconds (hint: the Retry-After header *)
(* or 2 s when it is absent), one more retry and a further request at the  *)
(* same size; an attempt that starts at the floor and is answered 429      *)
(* every time makes four requests, sleeps three times (2, 4 and 8 s        *)
(* without a header) and is Failed on the fourth 429.  Refuted by the      *)
(* code: a Retry-After header that is not a number (an HTTP date) ends the *)
(* attempt at once, without a sleep and without a further request.         *)
(***************************************************************************)
\* the sleeps (ms) a 429 at retry count r can be answered with
C27_Backoffs(r) ==
  {DEFAULT_RETRY_DELAY * Pow2(r) * 1000} \cup
  {FloatOf(h) * Pow2(r) * 1000 : h \in {g \in RetryAfterHeaders : IsFloat(g)}}

C27_Step ==
  (Std /\ pc = "loop" /\ sizes' # sizes /\ last_status' = "429"
     /\ current_size = MIN_BYTES_PER_REQ /\ retry_count < MAX_RETRIES)
    => /\ Len(sleeps') = Len(sleeps) + 1
       /\ sleeps'[Len(sleeps')] \in C27_Backoffs(retry_count)
       /\ retry_count' = retry_count + 1
       /\ current_size' = current_size
       /\ pc' = "loop"
       /\ WhileCond(retry_count', measurement_success')

C27_Inv ==
  (InBandwidthPhase /\ only429 /\ Len(sizes) > 0
     /\ sizes[1] = MIN_BYTES_PER_REQ /\ ~counted) =>
    /\ Len(sizes) <= MAX_RETRIES
    /\ retry_count = Len(sizes)
    /\ Len(sleeps) = Len(sizes)
    /\ \A k \in DOMAIN sleeps : sleeps[k] \in C27_Backoffs(k - 1)

C27_BackoffAtFloor == [][C27_Step]_vars /\ []C27_Inv

(***************************************************************************)
(* C28: in _run_full a finished flag is set only when at least one probe   *)
(* of the phase succeeded; a phase whose probes all failed with a          *)
(* swallowed exception leaves the flag unset and the later phases of the   *)
(* direction still run.  Refuted by the code: min_dur starts at infinity,  *)
(* which exceeds the threshold, so a non-bypass phase without any success  *)
(* sets the flag and the later phases of the direction are skipped.        *)
(***************************************************************************)
C28_FlagNeedsSuccess ==
  [][(impl = "full" /\ pc = "for" /\ NResults(results) = 0)
       => (download_finished' = download_finished
             /\ upload_finished' = upload_finished)]_vars

(***************************************************************************)
(* C29: in _run_full a 429, a 403 or another error status other than 401   *)
(* answering a download or upload probe after the calibration probe only   *)
(* drops the sample: the phase goes on with its next probe and the run is  *)
(* not ended.  Refuted by the code: _fetch turns the status into an        *)
(* HTTPError (raise_for_status) and do_download / do_upload re-raise every *)
(* HTTPError, which ends the run without a report.                         *)
(***************************************************************************)
C29_ErrorStatusDropsSample ==
  [][(impl = "full" /\ pc = "for" /\ idx > 2 /\ attempts' # attempts
        /\ last_status' \in {"429", "403", OtherStatus})
       => /\ outcome' = "running"
          /\ pc' = "for" /\ i' = i + 1
          /\ results' = results /\ appended' = 0]_vars

(***************************************************************************)
(* C26: shrink steps do not use up the budget of the backoff branch: an    *)
(* attempt that is Failed because 429 answers at the floor size exhausted  *)
(* its retries has made 3 backoff retries, whatever the number of shrink   *)
(* steps before them.  Refuted by the code: the two branches share         *)
(* retry_count, so after k shrink steps only 3 - k backoff retries are     *)
(* left (called with 150,000 bytes: one shrink, two backoffs).             *)
(***************************************************************************)
\* sleeps of the backoff branch (a shrink sleeps 100 ms)
NBackoffs(sl) == Cardinality({k \in DOMAIN sl : sl[k] >= 1000})
NShrinks(sl) == Cardinality({k \in DOMAIN sl : sl[k] = 100})

C26_ShrinkKeepsBackoffBudget ==
  (AttemptOver /\ counted /\ only429 /\ last_status = "429"
     /\ current_size = MIN_BYTES_PER_REQ /\ retry_count >= MAX_RETRIES)
    => NBackoffs(sleeps) = MAX_RETRIES

\* C21: in run_standard_test of src/cf_speedtest the latency samples of the
\* report are, in measurement order, the most recent 20 collected samples
\* when at least 20 were collected in the run and all collected samples
\* otherwise; the samples are appended in the order of the probes and the
\* reported list never has more than 20 elements.
C21_LatencyChoice ==
  /\ impl = "std" =>
       \A j \in 1..Len(all_latency_measurements) :
          all_latency_measurements[j].n = j
  /\ (impl = "std" /\ pc = "done" /\ returned.kind = "report") =>
       LET collected == all_latency_measurements
           reported == returned.latency_measurements
       IN /\ Len(reported) <= 20
          /\ IF Len(collected) >= 20
             THEN /\ Len(reported) = 20
                  /\ \A j \in 1..20 :
                       reported[j] = collected[Len(collected) - 20 + j]
             ELSE reported = collected

\* a report after 21 samples: the sample of the first latency measurement is
\* left out
C21_Witness ==
  /\ impl = "std" /\ pc = "done" /\ returned.kind = "report"
  /\ Len(all_latency_measurements) = 21
  /\ returned.latency_measurements[1].n = 2
  /\ returned.latency_measurements[1].ping
       # all_latency_measurements[1].ping

\* C30: in run_standard_test of src/cf_speedtest the accumulator of a
\* direction is a sliding window per requested size: after any phase the
\* number of accumulated results of a size never exceeds the count of the
\* most recent phase of that size (for the downloads of 100,000 bytes, at
\* most 9 results).
\* Refuted: download_results is one flat list that is only ever extended;
\* the result of the first call (count 1) stays when the second call
\* (count 9) adds nine, which leaves ten results of 100,000 bytes.
C30_SlidingWindow ==
  impl = "std" => download_results.repeated <= 9

\* the chosen latency sequence of the specification: the most recent 20
\* samples when at least 20 were collected, otherwise all
C23_ChosenSeq(s) == IF Len(s) >= 20 THEN SubSeq(s, Len(s) - 19, Len(s)) ELSE s

\* two quotients are the same number
C23_Same(a, b) == a.num * b.den = b.num * a.den

\* C23: in the report of run_standard_test of src/python/cf_speedtest_custom,
\* jitter_ms is the mean of |sample[i] - sample[i-1]| over the chosen latency
\* sequence (the most recent 20 samples when at least 20 were collected,
\* otherwise all) in measurement order, and 0 when that sequence has fewer
\* than 2 samples.
\* Refuted: _run_full hands every collected latency to _jitter.  After 21
\* samples, the first of 12 ms and twenty of 10 ms, jitter_ms is 2/20 = 0.1
\* while the chosen sequence (twenty samples of 10 ms) has jitter 0.
C23_JitterOfChosen ==
  (impl = "full" /\ pc = "done" /\ outcome = "assembled") =>
     LET chosen == C23_ChosenSeq(all_latency_measurements)
     IN C23_Same(returned.jitter_ms,
                 IF Len(chosen) < 2 THEN Over(0, 1)
                 ELSE Over(SumAbsDiff(chosen), Len(chosen) - 1))

\* the run has computed the inputs of the bandwidth percentiles
C22_Computed ==
  /\ pc = "done" /\ outcome \in {"assembled", "reported"}
  /\ ~(impl = "std" /\ latency_measurements = << >>)

\* C22: in every implementation (run_standard_test of src/cf_speedtest,
\* _run_full and _run_reduced under src/python) the bps values passed to the
\* bandwidth percentile of a direction are exactly the accumulated results
\* of that direction whose duration is at least 10 ms; a result of less than
\* 10 ms never contributes to the reported speed.
C22_OnlyQualifyingResults ==
  C22_Computed =>
    /\ dl_pts = {d \in download_results.durations : d >= 10}
    /\ ul_pts = {d \in upload_results.durations : d >= 10}
    /\ \A d \in dl_pts \cup ul_pts : d >= 10

\* _run_full has accumulated download results of 5 ms and of 10 ms or more,
\* and only the latter are passed on
C22_Witness ==
  /\ impl = "full" /\ C22_Computed
  /\ 5 \in download_results.durations
  /\ dl_pts # {}
  /\ 5 \notin dl_pts

\* C24: on success run_standard_test of src/cf_speedtest reports download
\* and upload in bits per second, each reported speed being
\* percentile(qualifying bps samples of the direction, target percentile),
\* and the report also carries the ping and the jitter of the chosen latency
\* samples.
\* Refuted: the reported speed is the percentile divided by 8 (bytes per
\* second), and the report has the keys download_speed, upload_speed and
\* latency_measurements only.
C24_BitsPerSecondPingJitter ==
  (pc = "reported" /\ returned.kind = "report") =>
     /\ returned.download_speed.num = pct * returned.download_speed.den
     /\ returned.upload_speed.num = pct * returned.upload_speed.den
     /\ {"ping_ms", "jitter_ms"} \subseteq DOMAIN returned

(***************************************************************************)
(* C31: in measure_latency of src/cf_speedtest a latency phase of n        *)
(* packets issues exactly n requests, one per packet, with no retry and no *)
(* size adaptation; each request contributes at most one sample, a         *)
(* non-success status or an exception contributes none, and no outcome of  *)
(* a latency probe aborts the phase or the run.                            *)
(***************************************************************************)
InLatencyPhase == Std /\ pc = "lat"

C31_Inv ==
  InLatencyPhase =>
    /\ measurements[idx].mtype = "latency"
    /\ attempts[idx] = i /\ i <= measurements[idx].count
    /\ latencies <= i
    /\ retry_count = 0 /\ sizes = << >> /\ sleeps = << >>
    /\ outcome = "running"

C31_Step ==
  InLatencyPhase =>
    IF i < measurements[idx].count
    THEN /\ pc' = "lat" /\ idx' = idx /\ i' = i + 1
         /\ attempts'[idx] = attempts[idx] + 1
         /\ latencies' = latencies + (IF last_status' = "200" THEN 1 ELSE 0)
         /\ ctl' = ctl /\ sleeps' = sleeps /\ outcome' = "running"
    ELSE /\ pc' = "seq" /\ idx' = idx + 1 /\ outcome' = "running"
         /\ attempts'[idx] = measurements[idx].count
         /\ any_latency' = (any_latency \/ latencies > 0)

C31_LatencyPhaseIsNProbes == []C31_Inv /\ [][C31_Step]_vars

\* the 20 packets of the main latency phase are sent, two of them answered
\* by a sample and the last one by an error status
C31_Witness ==
  /\ InLatencyPhase /\ measurements[idx].count = 20 /\ i = 20
  /\ attempts[idx] = 20 /\ latencies = 2 /\ last_status = "403"

(***************************************************************************)
(* C35: in measure_download_bandwidth and measure_upload_bandwidth the     *)
(* retry state is scoped to one probe attempt: every attempt of a phase    *)
(* starts with the current size equal to the configured size of the phase  *)
(* and the retry count 0, whatever size and retry count the previous       *)
(* attempt ended with, and no phase inherits a reduced size from an        *)
(* earlier phase.                                                          *)
(***************************************************************************)
\* an attempt has started and has not been answered yet
AttemptStarted == Std /\ pc = "loop" /\ sizes = << >>

C35_Inv ==
  /\ AttemptStarted =>
       /\ current_size = measurements[idx].bytes
       /\ retry_count = 0 /\ ~measurement_success
  /\ (InBandwidthPhase /\ sizes # << >>) =>
       sizes[1] = measurements[idx].bytes

C35_Step ==
  (Std /\ pc = "for" /\ i < measurements[idx].count) =>
     /\ pc' = "loop" /\ idx' = idx /\ i' = i
     /\ current_size' = measurements[idx].bytes
     /\ retry_count' = 0 /\ ~measurement_success'
     /\ sizes' = << >> /\ sleeps' = << >>

C35_RetryStatePerAttempt == []C35_Inv /\ [][C35_Step]_vars

\* the second attempt of the 1,000,000-byte download phase is about to
\* start; the first one ended at the floor with the retries used up
C35_Witness ==
  /\ AttemptOver /\ i = 1 /\ i < measurements[idx].count
  /\ measurements[idx].bytes = 1000000
  /\ current_size = MIN_BYTES_PER_REQ /\ retry_count = MAX_RETRIES + 1

(***************************************************************************)
(* C36: in measure_download_bandwidth and measure_upload_bandwidth a 429   *)
(* answer is always handled by the shrink or backoff rules whatever its    *)
(* Retry-After header contains: a value that is not a number (an HTTP      *)
(* date) is treated like an absent header and never makes the attempt end  *)
(* as a dropped sample without retry.                                      *)
(* Refuted by the code: float(retry_after_str) is evaluated before the     *)
(* shrink and backoff branches; for an HTTP date it raises ValueError,     *)
(* which the clause "except Exception" answers with errors += 1 and break. *)
(***************************************************************************)
C36_Step ==
  (Std /\ pc = "loop" /\ sizes' # sizes /\ last_status' = "429"
     /\ (CanShrink(current_size) \/ CanBackoff(retry_count)))
    => /\ pc' = "loop" /\ i' = i
       /\ retry_count' = retry_count + 1
       /\ Len(sleeps') = Len(sleeps) + 1
       /\ ~counted'

C36_Any429IsRetried == [][C36_Step]_vars

(***************************************************************************)
(* C37: every probe attempt of src/cf_speedtest terminates after at most   *)
(* 4 HTTP requests (MAX_RETRIES + 1) for every sequence of transport       *)
(* outcomes, each pass of the retry loop either ending the attempt or      *)
(* incrementing the retry count; hence, provided every transport call      *)
(* returns, run_standard_test always ends in a report or an explicit       *)
(* failure after a bounded number of requests.                             *)
(***************************************************************************)
C37_Inv ==
  InBandwidthPhase =>
    /\ Len(sizes) <= MAX_RETRIES + 1
    /\ attempts[idx] <= measurements[idx].count
    /\ (pc = "loop" /\ ~measurement_success) => Len(sizes) = retry_count

\* a pass of the retry loop
C37_Step ==
  (Std /\ pc = "loop" /\ sizes' # sizes) =>
     \/ pc' = "for" /\ i' = i + 1
     \/ pc' = "loop" /\ measurement_success'
     \/ pc' = "loop" /\ retry_count' = retry_count + 1

C37_Ended ==
  pc = "done" /\ returned.kind \in {"report", "ValueError"}

C37_Terminates ==
  /\ []C37_Inv
  /\ [][C37_Step]_vars
  /\ Std => <>C37_Ended

\* an attempt that took four requests: three shrinks from 1,000,000 bytes
\* and a success
C37_Witness ==
  /\ AttemptOver /\ Len(sizes) = MAX_RETRIES + 1
  /\ sizes[1] = 1000000 /\ last_status = "200" /\ appended = 1

(***************************************************************************)
(* C39: the final failure checks of run_standard_test have a fixed         *)
(* precedence: without a latency sample the run fails with the latency     *)
(* failure even when both directions have qualifying samples; otherwise a  *)
(* missing download result is reported before a missing upload result, so  *)
(* that when both directions have no qualifying sample the failure names   *)
(* download.                                                               *)
(***************************************************************************)
C39_FailurePrecedence ==
  (Std /\ RunOver) =>
    /\ ~any_latency =>
         returned.kind = "ValueError" /\ returned.names = "latency"
    /\ (any_latency /\ ~any_download) =>
         returned.kind = "ValueError" /\ returned.names = "download"
    /\ (any_latency /\ any_download /\ ~any_upload) =>
         returned.kind = "ValueError" /\ returned.names = "upload"
    /\ (any_latency /\ any_download /\ any_upload) =>
         returned.kind = "report"

\* no latency sample although both directions have a qualifying result
C39_Witness ==
  /\ Std /\ RunOver /\ ~any_latency /\ any_download /\ any_upload
  /\ returned.names = "latency"

(***************************************************************************)
(* C32: in measure_download_bandwidth, for every successful request with   *)
(* requested size N and B bytes actually transferred, the bits used for    *)
(* the bandwidth are 8 * max(B, N * 1.005), so that a body of exactly N    *)
(* bytes is counted as 8 * N * 1.005 bits.                                 *)
(* Refuted by the code: the bits are 8 * B whenever B > 0 and the header   *)
(* estimate is used only for an empty body; a body of exactly N bytes is   *)
(* counted as 8 * N bits.  (8 * N * 1.005 is 8 * N + N / 25, a whole       *)
(* number for every size requested here.)                                  *)
(***************************************************************************)
C32_BitsAreMaxOfBodyAndEstimate ==
  (pc = "appended" /\ result.kind = "download") =>
     result.bits = Max(8 * response.transfer_size,
                       8 * response.requested + response.requested \div 25)

(***************************************************************************)
(* C33: in the latency and bandwidth probes, the server time subtracted    *)
(* from the time to the first byte is the number in the dur= field of the  *)
(* server-timing header whenever that field holds a number (dur=0          *)
(* included), and 10 ms whenever the header is absent or malformed; a      *)
(* missing or malformed header never causes the sample to be dropped.      *)
(* Refuted by the code: dur=0 parses to 0.0, which "or" replaces by 10 ms, *)
(* and a dur field such as 1.2.3 matches the pattern but makes float()     *)
(* raise, which drops the sample.                                          *)
(***************************************************************************)
HoldsNumber(h) == h \in {"cfRequestDuration;dur=12.5",
                         "cfRequestDuration;dur=0", "cfRequestDuration;dur=3"}
C33_ServerTimeParsedOrDefault ==
  /\ pc # "dropped"
  /\ pc = "appended" =>
       result.server_time =
         IF HoldsNumber(response.server_timing)
         THEN DurValue(DurField(response.server_timing))
         ELSE ESTIMATED_SERVER_TIME

(***************************************************************************)
(* C34: every result appended by measure_download_bandwidth or             *)
(* measure_upload_bandwidth has duration >= 1 ms, ping >= 0.01 ms and      *)
(* bps > 0, and its recorded byte size is the size of the request that     *)
(* succeeded (the possibly reduced current size), which lies between the   *)
(* floor of 100,000 bytes and the configured size of the phase.            *)
(***************************************************************************)
BandwidthResult ==
  pc = "appended" /\ result.kind \in {"download", "upload"}
C34_AppendedResultIsSound ==
  BandwidthResult =>
    /\ result.duration >= Ms
    /\ result.ping >= 1
    /\ result.bps.num > 0 /\ result.bps.den > 0
    /\ result.bytes = response.requested
    /\ MIN_BYTES_PER_REQ <= result.bytes /\ result.bytes <= bytes_size

\* a download answered before the server time had passed, at a reduced
\* size, with an empty body: ping, payload time and bits are all at their
\* clamps
C34_Witness ==
  /\ BandwidthResult /\ result.kind = "download"
  /\ response.elapsed < result.server_time
  /\ response.payload = 0 /\ response.transfer_size = 0
  /\ result.bytes < bytes_size
  /\ result.ping = 1 /\ result.duration = Ms + 1

(***************************************************************************)
(* C38: the retry controllers of measure_download_bandwidth and            *)
(* measure_upload_bandwidth are equivalent: for the same initial size,     *)
(* repeat count and sequence of response statuses and Retry-After values,  *)
(* both produce the same sequence of requested sizes, retry counts, sleeps *)
(* and per-attempt outcomes (success or Failed).                           *)
(***************************************************************************)
Observed(s) ==
  [sizes |-> s.sizes, retry_counts |-> s.retry_counts, sleeps |-> s.sleeps,
   outcomes |-> s.outcomes]
C38_ControllersAgree ==
  /\ Observed(down) = Observed(up)
  /\ down.pc = up.pc /\ down.i = up.i

\* a second attempt that shrank once and then backed off twice, with
\* growing waits, after a first attempt that failed
C38_Witness ==
  /\ down.outcomes = << "Failed" >>
  /\ Len(up.sizes) = 4 /\ up.sizes[1] > up.sizes[2]
  /\ up.sizes[2] = up.sizes[4]
  /\ up.retry_counts = << 0, 1, 2, 3 >>
  /\ Len(up.sleeps) = 4 /\ up.sleeps[1] = REQUEST_DELAY
  /\ up.sleeps[3] < up.sleeps[4]

(***************************************************************************)
(* C40: in _run_full, after every successful download or upload probe the  *)
(* list stored for the requested byte size holds at most count entries,    *)
(* count being the repeat count of the phase being executed, and they are  *)
(* the most recent ones; consequently the calibration sample for 100,000   *)
(* bytes is still part of the final download percentile input if and only  *)
(* if fewer than 9 probes of the following 100,000-byte phase succeeded.    *)
(* As stated this is refuted: a calibration sample of less than 10 ms is   *)
(* stored, but the filter of the final computation keeps it out of the     *)
(* percentile input however few probes follow.  Amended: the calibration   *)
(* sample is part of the input if and only if it lasted at least 10 ms and *)
(* fewer than 9 probes of the following phase succeeded.                   *)
(***************************************************************************)
CalibrationPhase == 2
\* the list in view is down[100000] and the run has reached its final
\* computation
CalibrationFollowed ==
  /\ impl = "full" /\ pc = "done" /\ outcome = "assembled"
  /\ executed # << >> /\ executed[1] = CalibrationPhase
\* the points a phase appended
AppendedBy(p) == {j \in 1..Len(history) : history[j].phase = p}

\* after a probe has appended, the list is the last count points appended
C40_LastCount ==
  (impl = "full" /\ pc = "probe" /\ history # << >>
     /\ history[Len(history)].phase = idx) =>
     /\ Len(timings) <= FullPhase.count
     /\ timings = Last(history, Min(Len(history), FullPhase.count))

C40_Original ==
  /\ C40_LastCount
  /\ CalibrationFollowed =>
       \A j \in AppendedBy(CalibrationPhase) :
          history[j] \in dl_pts <=>
            Cardinality(AppendedBy(CalibrationPhase + 2)) < 9

C40_Window ==
  /\ C40_LastCount
  /\ CalibrationFollowed =>
       \A j \in AppendedBy(CalibrationPhase) :
          history[j] \in dl_pts <=>
            /\ FullValid(history[j].duration)
            /\ Cardinality(AppendedBy(CalibrationPhase + 2)) < 9

\* the calibration sample and eight of the nine probes of the following
\* phase are the input: the list is full and nothing was cut
C40_Witness ==
  /\ CalibrationFollowed
  /\ Cardinality(AppendedBy(CalibrationPhase)) = 1
  /\ Cardinality(AppendedBy(CalibrationPhase + 2)) = 8
  /\ history[1] \in dl_pts
  /\ Len(timings) = 9

====
